---------------------------- MODULE Spec2Model ----------------------------
(***************************************************************************)
(* Validation / provenance engine of latent-logic (evaluation_utils.py)    *)
(* and the validate-and-classify step of run_evaluation that drives it.    *)
(*                                                                         *)
(* Conventions                                                             *)
(*   - An optional Python value is a sequence: None is <<>> and a value v  *)
(*     is Some(v) = <<v>>; a verdict's "valid" is Some(TRUE), Some(FALSE)  *)
(*     or None.  A dict is a record; Get(d, k) is d.get(k).                *)
(*   - A Python float is an exact rational [n |-> Int, d |-> Nat \ {0}] in *)
(*     lowest terms (binary rounding of IEEE doubles is not modelled).     *)
(*   - A text is a sequence of characters, each a string; the degree sign  *)
(*     is the character "deg".                                             *)
(***************************************************************************)
EXTENDS Integers, Sequences, FiniteSets, TLC

VARIABLES
    pc,             \* position in the per-(model, prompt) body of run_evaluation
    prompt_obj,     \* the PromptSpec being evaluated
    canonical_snapshot, \* what build_canonical_snapshot returned
    final_text,     \* the agent's final answer (response)
    tool_used,      \* result of detect_tool_use_* on the transcript
    eval_time_unix, \* int(time.time()) taken before validation
    sample_1,       \* what fetch_canonical_iss_position returned inside validate_iss
    iss_fetches,    \* calls of fetch_canonical_iss_position made by validate_iss
    iss_locals,     \* local variables of validate_iss at its return
    validation,     \* the verdict returned by validate_result
    provenance,     \* the label returned by classify_provenance
    sidecar,        \* the last *_validation.json written
    run_pc,         \* position in run_evaluation around the loop over the pairs
    environ,        \* the process environment (API keys)
    manifest,       \* prompt_data["prompts"]
    snapshot_dict,  \* the dict build_canonical_snapshot is filling
    build_next,     \* index of the prompt build_canonical_snapshot handles next
    fetch_log,      \* the fetcher calls of build_canonical_snapshot, in order
    builds,         \* calls of build_canonical_snapshot made by the run
    pair,           \* <<model index, prompt index>> of the loop
    attempts,       \* the pairs whose try block was entered, in order
    errors_logged,  \* calls of logger.exception made for the current pair
    report_pc,      \* position in main() of compare_framework_runs.py
    report_next,    \* index of the expected pair main() loads next
    rows,           \* the records load_record returned, in order
    missing,        \* the expected records that were not found
    summary,        \* the summary dict main() saves
    headline,       \* the counts build_markdown prints under "Headline"
    insight_counts, \* what pairwise_counts makes of the saved summary
    agent_pc,       \* position in FoundryAgent.run and in the pair's evaluation
    messages,       \* self.messages of the FoundryAgent
    requests,       \* the length of self.messages at each completion request
    call_next,      \* index of the tool call the for loop handles next
    response,       \* what agent.run returned
    evaluated,      \* what the pair's sidecar is made of
    twin,           \* the same for a transcript with other tool outputs
    stream_pc,      \* position in FoundryCompletionsModel.stream
    tool_call_mode, \* config["tool_call_mode"] of the provider
    events,         \* the stream events yielded so far
    data_type,      \* type of the content block that is open, if any
    finish_reason,  \* finish reason of the chunk that ended the loop
    stream_text,    \* final_text of stream: the content pieces so far
    tool_deltas,    \* tool_calls of stream: the deltas of each index
    chunks_seen,    \* number of provider chunks consumed
    disk,           \* the result and validation files of the run directory
    canonical_file, \* what canonical_<version>.json of the run directory holds
    built,          \* the snapshots the invocations built, in order
    strands_run_id, \* what choose_strands_run_id returned to main()
    inv_pc,         \* position of the running invocation of a runner
    runner,         \* the framework of the running invocation
    run_id,         \* run_id of the running strands invocation
    started,        \* number of invocations started in the run group
    prompt_next     \* index of the pair the invocation handles next

\* the variables of one (model, prompt) pair
pairVars == <<pc, prompt_obj, final_text, tool_used, eval_time_unix, sample_1,
              iss_fetches, iss_locals, validation, provenance, sidecar>>

\* the variables of a run outside the body of its loop
runVars == <<run_pc, environ, manifest, snapshot_dict, build_next, fetch_log,
             builds, pair, attempts, errors_logged>>

\* the variables of the comparison report
reportVars == <<report_pc, report_next, rows, missing, summary, headline,
                insight_counts>>

\* the variables of the scratch agent loop
agentVars == <<agent_pc, messages, requests, call_next, response, evaluated, twin>>

\* the variables of one call of the provider's stream
streamVars == <<stream_pc, tool_call_mode, events, data_type, finish_reason,
                stream_text, tool_deltas, chunks_seen>>

\* the variables of a run group's directory, its invocations and its comparison
groupVars == <<disk, canonical_file, built, strands_run_id, inv_pc, runner,
               run_id, started, prompt_next>>

vars == <<pairVars, canonical_snapshot, runVars, reportVars, agentVars, streamVars, groupVars>>

None == <<>>

Some(v) == <<v>>

\* a run directory without files
EmptyDisk == [p \in {} |-> None]

\* d.get(k)
Get(d, k) == IF k \in DOMAIN d THEN Some(d[k]) ELSE None

(***************************************************************************)
(* Bounds of the model.                                                    *)
(***************************************************************************)
\* a final text is the concatenation of at most MaxPieces lexicon pieces
MaxPieces == 3
\* unix timestamps t0, t1, eval_time_unix range over 0 .. MaxTime
MaxTime == 4

(***************************************************************************)
(* Exact rational arithmetic standing for Python float arithmetic.         *)
(***************************************************************************)
Abs(i) == IF i < 0 THEN -i ELSE i

Min(a, b) == IF a <= b THEN a ELSE b

Max(a, b) == IF a >= b THEN a ELSE b

RECURSIVE GCD(_, _)
GCD(a, b) == IF b = 0 THEN a ELSE GCD(b, a % b)

RECURSIVE Pow10(_)
Pow10(k) == IF k = 0 THEN 1 ELSE 10 * Pow10(k - 1)

Rat(n, d) ==
    LET s == IF d < 0 THEN -1 ELSE 1
        g == GCD(Abs(n), Abs(d))
    IN  [n |-> (s * n) \div g, d |-> (s * d) \div g]

RInt(i) == [n |-> i, d |-> 1]

RNeg(x) == [n |-> -x.n, d |-> x.d]

\* least common multiple of two denominators
LCM(a, b) == (a \div GCD(a, b)) * b

RAdd(x, y) ==
    LET l == LCM(x.d, y.d)
    IN  Rat(x.n * (l \div x.d) + y.n * (l \div y.d), l)

RSub(x, y) == RAdd(x, RNeg(y))

RMul(x, y) == Rat(x.n * y.n, x.d * y.d)

RDiv(x, y) == Rat(x.n * y.d, x.d * y.n)

RAbs(x) == [n |-> Abs(x.n), d |-> x.d]

\* floor(x)
RFloor(x) == x.n \div x.d

RECURSIVE FracLe(_, _, _, _)
\* a / b <= c / d for b, d > 0, by integer parts and then by the inverted
\* fractional parts, so that no product is formed
FracLe(a, b, c, d) ==
    LET fa == a \div b
        fc == c \div d
        ra == a - fa * b
        rc == c - fc * d
    IN  IF fa # fc THEN fa < fc
        ELSE IF ra = 0 THEN TRUE
        ELSE IF rc = 0 THEN FALSE
        ELSE FracLe(d, rc, b, ra)

\* x <= y
RLe(x, y) == FracLe(x.n, x.d, y.n, y.d)

RECURSIVE ScaledDigits(_, _, _, _)
\* long division: <<floor(q + rem * 10^k / d), the remainder left>>
ScaledDigits(q, rem, d, k) ==
    IF k = 0 THEN <<q, rem>>
    ELSE ScaledDigits(10 * q + (10 * rem) \div d, (10 * rem) % d, d, k - 1)

\* round(x, k): nearest multiple of 10^-k, ties to even
RRound(x, k) ==
    LET f  == RFloor(x)
        qr == ScaledDigits(0, x.n - f * x.d, x.d, k)
        up == 2 * qr[2] > x.d \/ (2 * qr[2] = x.d /\ (qr[1] + f) % 2 = 1)
    IN  RAdd(RInt(f), Rat(IF up THEN qr[1] + 1 ELSE qr[1], Pow10(k)))

\* nearest integer of a rational (used to index the trigonometric table)
RNearest(x) == RRound(x, 0).n

(***************************************************************************)
(* Characters and texts.                                                   *)
(***************************************************************************)
Digits == {"0", "1", "2", "3", "4", "5", "6", "7", "8", "9"}

DigitVal(c) ==
    CASE c = "0" -> 0 [] c = "1" -> 1 [] c = "2" -> 2 [] c = "3" -> 3
      [] c = "4" -> 4 [] c = "5" -> 5 [] c = "6" -> 6 [] c = "7" -> 7
      [] c = "8" -> 8 [] c = "9" -> 9

\* \d
IsDigit(s, i) == i >= 1 /\ i <= Len(s) /\ s[i] \in Digits

\* \s
IsSpace(s, i) == i >= 1 /\ i <= Len(s) /\ s[i] \in {" ", "\n", "\t"}

\* one literal character
IsChar(s, i, c) == i >= 1 /\ i <= Len(s) /\ s[i] = c

\* str.upper() on the letters the extractors read
Upper(c) ==
    CASE c = "c" -> "C" [] c = "f" -> "F" [] c = "n" -> "N" [] c = "s" -> "S"
      [] c = "e" -> "E" [] c = "w" -> "W" [] OTHER -> c

\* [..] under re.IGNORECASE
IsLetterOf(s, i, letters) == i >= 1 /\ i <= Len(s) /\ Upper(s[i]) \in letters

\* \d* from i, greedy: the index after the run of digits
DigitsEnd(s, i) ==
    CHOOSE j \in i .. Len(s) + 1 :
        /\ \A k \in i .. j - 1 : IsDigit(s, k)
        /\ ~IsDigit(s, j)

\* \s* from i, greedy
SpacesEnd(s, i) ==
    CHOOSE j \in i .. Len(s) + 1 :
        /\ \A k \in i .. j - 1 : IsSpace(s, k)
        /\ ~IsSpace(s, j)

\* \d+(?:\.\d+)? anchored at i: the index after the match, 0 when none
NumberEnd(s, i) ==
    LET j == DigitsEnd(s, i)
    IN  IF j = i THEN 0
        ELSE IF IsChar(s, j, ".") /\ IsDigit(s, j + 1) THEN DigitsEnd(s, j + 2)
        ELSE j

\* -?\d+\.\d+ anchored at i: the index after the match, 0 when none
FloatEnd(s, i) ==
    LET i1 == IF IsChar(s, i, "-") THEN i + 1 ELSE i
        j  == DigitsEnd(s, i1)
    IN  IF j > i1 /\ IsChar(s, j, ".") /\ IsDigit(s, j + 1)
        THEN DigitsEnd(s, j + 2) ELSE 0

\* -?\d+(?:\.\d+)? anchored at i: the index after the match, 0 when none
TokenEnd(s, i) ==
    LET i1 == IF IsChar(s, i, "-") THEN i + 1 ELSE i
    IN  NumberEnd(s, i1)

RECURSIVE DigitsValue(_, _, _)
\* the integer written by the digits s[i .. j-1]
DigitsValue(s, i, j) ==
    IF j <= i THEN 0 ELSE 10 * DigitsValue(s, i, j - 1) + DigitVal(s[j - 1])

\* the value of digits s[i .. p-1], followed when p < j by "." and the
\* digits s[p+1 .. j-1]
DecimalValue(s, i, p, j) ==
    IF p < j
    THEN Rat(DigitsValue(s, i, p) * Pow10(j - p - 1) + DigitsValue(s, p + 1, j),
             Pow10(j - p - 1))
    ELSE RInt(DigitsValue(s, i, p))

\* float(s[i .. j-1]) for a token matched by one of the patterns above
ParseFloat(s, i, j) ==
    IF IsChar(s, i, "-")
    THEN RNeg(DecimalValue(s, i + 1, DigitsEnd(s, i + 1), j))
    ELSE DecimalValue(s, i, DigitsEnd(s, i), j)

\* -? when the pattern allows a sign
SkipSign(s, i, signed) == IF signed /\ IsChar(s, i, "-") THEN i + 1 ELSE i

\* deg?
SkipDegree(s, k) == IF IsChar(s, k, "deg") THEN k + 1 ELSE k

\* \s*deg?\s* from e: the index where the unit letter has to be
UnitAfter(s, e) == SpacesEnd(s, SkipDegree(s, SpacesEnd(s, e)))

\* the index of the unit letter after a number ending at e, 0 when the
\* number did not match (e = 0) or no unit letter follows
UnitIfNumber(s, e, letters) ==
    IF e # 0 /\ IsLetterOf(s, UnitAfter(s, e), letters) THEN UnitAfter(s, e) ELSE 0

\* (number)\s*deg?\s*([letters]) anchored at i, the number optionally signed:
\* the index of the unit letter, 0 when the pattern does not match at i
QuantityUnitAt(s, i, signed, letters) ==
    UnitIfNumber(s, NumberEnd(s, SkipSign(s, i, signed)), letters)

\* groups 1 and 2 of the match anchored at i
QuantityGroups(s, i, signed, letters) ==
    [value |-> ParseFloat(s, i, NumberEnd(s, SkipSign(s, i, signed))),
     unit  |-> Upper(s[QuantityUnitAt(s, i, signed, letters)])]

\* the least element of a set of indices
MinOf(S) == CHOOSE a \in S : \A b \in S : a <= b

\* the match at the leftmost of the start indices, or None
LeftmostMatch(s, starts, signed, letters) ==
    IF starts = {} THEN None
    ELSE Some(QuantityGroups(s, MinOf(starts), signed, letters))

\* re.search of that pattern: groups (1, 2) of the leftmost match, or None
SearchQuantity(s, signed, letters) ==
    LeftmostMatch(s, {i \in 1 .. Len(s) : QuantityUnitAt(s, i, signed, letters) # 0},
                  signed, letters)

RECURSIVE FindFloats(_, _)
RECURSIVE FloatsFrom(_, _, _)
\* re.findall(r"-?\d+\.\d+", s) from index i on: the values, in order
FindFloats(s, i) ==
    IF i > Len(s) THEN <<>> ELSE FloatsFrom(s, i, FloatEnd(s, i))

\* e is where the match anchored at i ends, 0 when there is none
FloatsFrom(s, i, e) ==
    IF e = 0 THEN FindFloats(s, i + 1)
    ELSE <<ParseFloat(s, i, e)>> \o FindFloats(s, e)

RECURSIVE FindTokens(_, _)
RECURSIVE TokensFrom(_, _, _)
\* re.findall(r"-?\d+(?:\.\d+)?", s) from index i on: the values, in order
FindTokens(s, i) ==
    IF i > Len(s) THEN <<>> ELSE TokensFrom(s, i, TokenEnd(s, i))

\* e is where the match anchored at i ends, 0 when there is none
TokensFrom(s, i, e) ==
    IF e = 0 THEN FindTokens(s, i + 1)
    ELSE <<ParseFloat(s, i, e)>> \o FindTokens(s, e)

(***************************************************************************)
(* Extractors.                                                             *)
(***************************************************************************)
\* (value, unit) of a match, (None, None) without one
TemperatureOf(match) ==
    IF match = None THEN [value |-> None, unit |-> None]
    ELSE [value |-> Some(match[1].value), unit |-> Some(match[1].unit)]

_parse_temperature(text) == TemperatureOf(SearchQuantity(text, TRUE, {"C", "F"}))

_to_celsius(value, unit) ==
    IF unit = "C" THEN value
    ELSE RDiv(RMul(RSub(value, RInt(32)), RInt(5)), RInt(9))

\* the compass form when both matched, else the first two decimal numbers
LatLonOf(lat_match, lon_match, floats) ==
    IF lat_match # None /\ lon_match # None
    THEN [lat |-> Some(RMul(lat_match[1].value,
                            RInt(IF lat_match[1].unit = "N" THEN 1 ELSE -1))),
          lon |-> Some(RMul(lon_match[1].value,
                            RInt(IF lon_match[1].unit = "E" THEN 1 ELSE -1)))]
    ELSE IF Len(floats) >= 2
    THEN [lat |-> Some(floats[1]), lon |-> Some(floats[2])]
    ELSE [lat |-> None, lon |-> None]

_parse_lat_lon(text) ==
    LatLonOf(SearchQuantity(text, FALSE, {"N", "S"}),
             SearchQuantity(text, FALSE, {"E", "W"}),
             FindFloats(text, 1))

\* the band of plausible exchange rates
FxLow == Rat(1, 10000)

FxHigh == RInt(10)

\* mutant: the band is tested on the magnitude
InFxBand_magnitude(value) == RLe(FxLow, RAbs(value)) /\ RLe(RAbs(value), FxHigh)

\* 0.0001 <= value <= 10.0
InFxBand(value) == RLe(FxLow, value) /\ RLe(value, FxHigh)

\* the first of the tokens that is in the band, or None
FirstInBand(tokens) ==
    LET hits == {k \in 1 .. Len(tokens) : InFxBand(tokens[k])}
    IN  IF hits = {} THEN None ELSE Some(tokens[MinOf(hits)])

_parse_exchange_rate(text) == FirstInBand(FindTokens(text, 1))

(***************************************************************************)
(* Geometry.  math.sin / math.cos are read from a table of the sine at     *)
(* half-degree steps (scaled by TrigScale) and atan2 is inverted on the    *)
(* same table, so a distance is the great-circle arc to the nearest        *)
(* degree; the formula is the one of _haversine_km.                        *)
(***************************************************************************)
SinTable ==
    <<0, 87, 175, 262, 349, 436, 523, 610, 698, 785, 872, 958,
      1045, 1132, 1219, 1305, 1392, 1478, 1564, 1650, 1736, 1822, 1908, 1994,
      2079, 2164, 2250, 2334, 2419, 2504, 2588, 2672, 2756, 2840, 2924, 3007,
      3090, 3173, 3256, 3338, 3420, 3502, 3584, 3665, 3746, 3827, 3907, 3987,
      4067, 4147, 4226, 4305, 4384, 4462, 4540, 4617, 4695, 4772, 4848, 4924,
      5000, 5075, 5150, 5225, 5299, 5373, 5446, 5519, 5592, 5664, 5736, 5807,
      5878, 5948, 6018, 6088, 6157, 6225, 6293, 6361, 6428, 6494, 6561, 6626,
      6691, 6756, 6820, 6884, 6947, 7009, 7071, 7133, 7193, 7254, 7314, 7373,
      7431, 7490, 7547, 7604, 7660, 7716, 7771, 7826, 7880, 7934, 7986, 8039,
      8090, 8141, 8192, 8241, 8290, 8339, 8387, 8434, 8480, 8526, 8572, 8616,
      8660, 8704, 8746, 8788, 8829, 8870, 8910, 8949, 8988, 9026, 9063, 9100,
      9135, 9171, 9205, 9239, 9272, 9304, 9336, 9367, 9397, 9426, 9455, 9483,
      9511, 9537, 9563, 9588, 9613, 9636, 9659, 9681, 9703, 9724, 9744, 9763,
      9781, 9799, 9816, 9833, 9848, 9863, 9877, 9890, 9903, 9914, 9925, 9936,
      9945, 9954, 9962, 9969, 9976, 9981, 9986, 9990, 9994, 9997, 9998, 10000,
      10000>>

TrigScale == SinTable[Len(SinTable)]

\* the number of half-degree steps in a right angle
RightAngle == Len(SinTable) - 1

\* math.sin of h half-degrees, times TrigScale
SinH(h) ==
    LET m == h % (4 * RightAngle)
    IN  IF m <= RightAngle THEN SinTable[m + 1]
        ELSE IF m <= 2 * RightAngle THEN SinTable[2 * RightAngle - m + 1]
        ELSE IF m <= 3 * RightAngle THEN -SinTable[m - 2 * RightAngle + 1]
        ELSE -SinTable[4 * RightAngle - m + 1]

\* math.cos of h half-degrees, times TrigScale
CosH(h) == SinH(RightAngle - h)

\* an angle in degrees as a whole number of half-degrees
HalfDegrees(x) == RNearest(RMul(x, RInt(2)))

Pi == Rat(355, 113)

\* the Earth's radius r, in km
EarthRadiusKm == 6371

\* a of _haversine_km, times TrigScale squared; p1, p2 are the latitudes and
\* hlat, hlon are dlat / 2, dlon / 2, all in half-degrees
HaversineA(p1, p2, hlat, hlon) ==
    SinH(hlat) * SinH(hlat)
    + ((((CosH(p1) * CosH(p2)) \div TrigScale) * SinH(hlon)) \div TrigScale)
      * SinH(hlon)

\* c = 2 * atan2(sqrt(a), sqrt(1 - a)), in degrees
ArcDegrees(a) ==
    LET hits == {h \in 0 .. RightAngle : SinTable[h + 1] * SinTable[h + 1] >= a}
    IN  IF hits = {} THEN RightAngle ELSE MinOf(hits)

\* r * c
ArcKm(c) == RMul(RInt(EarthRadiusKm), RDiv(RMul(Pi, RInt(c)), RInt(RightAngle)))

_haversine_km(lat1, lon1, lat2, lon2) ==
    ArcKm(ArcDegrees(HaversineA(HalfDegrees(lat1), HalfDegrees(lat2),
                                RNearest(RSub(lat2, lat1)),
                                RNearest(RSub(lon2, lon1)))))

\* mutant: the two ends are exchanged
_lerp_from_end(a, b, t) == RAdd(b, RMul(RSub(a, b), t))

_lerp(a, b, t) == RAdd(a, RMul(RSub(b, a), t))

(***************************************************************************)
(* Validators.                                                             *)
(***************************************************************************)
\* mutant: the tolerance is exclusive
WeatherVerdict_exclusive(predicted_temp_c, expected_temp_c, max_diff_c) ==
    [valid            |-> Some(RAbs(RSub(predicted_temp_c, expected_temp_c)) # max_diff_c
                               /\ RLe(RAbs(RSub(predicted_temp_c, expected_temp_c)),
                                      max_diff_c)),
     expected_temp_c  |-> expected_temp_c,
     predicted_temp_c |-> RRound(predicted_temp_c, 2),
     diff_c           |-> RRound(RAbs(RSub(predicted_temp_c, expected_temp_c)), 2),
     max_diff_c       |-> max_diff_c]

\* the verdict of validate_weather once both temperatures are known
WeatherVerdict(predicted_temp_c, expected_temp_c, max_diff_c) ==
    [valid            |-> Some(RLe(RAbs(RSub(predicted_temp_c, expected_temp_c)),
                                   max_diff_c)),
     expected_temp_c  |-> expected_temp_c,
     predicted_temp_c |-> RRound(predicted_temp_c, 2),
     diff_c           |-> RRound(RAbs(RSub(predicted_temp_c, expected_temp_c)), 2),
     max_diff_c       |-> max_diff_c]

\* mutant: a canonical record without temp_c counts as zero degrees
WeatherChecked_missing_as_zero(parsed, expected_temp_c, max_diff_c) ==
    IF parsed.value = None \/ parsed.unit = None
    THEN [valid |-> Some(FALSE), reason |-> "no_temperature_found"]
    ELSE WeatherVerdict(_to_celsius(parsed.value[1], parsed.unit[1]),
                        IF expected_temp_c = None THEN RInt(0) ELSE expected_temp_c[1],
                        max_diff_c)

\* validate_weather after the extraction and the canonical lookup
WeatherChecked(parsed, expected_temp_c, max_diff_c) ==
    IF parsed.value = None \/ parsed.unit = None
    THEN [valid |-> Some(FALSE), reason |-> "no_temperature_found"]
    ELSE IF expected_temp_c = None
    THEN [valid |-> Some(FALSE), reason |-> "no_canonical_temperature"]
    ELSE WeatherVerdict(_to_celsius(parsed.value[1], parsed.unit[1]),
                        expected_temp_c[1], max_diff_c)

validate_weather(text, canon, max_diff_c) ==
    WeatherChecked(_parse_temperature(text), Get(canon, "temp_c"), max_diff_c)

\* the verdict of validate_location once the distance is known
LocationVerdict(lat, lon, expected_lat, expected_lon, dist, max_km) ==
    [valid         |-> Some(RLe(dist, max_km)),
     predicted_lat |-> lat,
     predicted_lon |-> lon,
     expected_lat  |-> expected_lat,
     expected_lon  |-> expected_lon,
     distance_km   |-> RRound(dist, 3),
     max_km        |-> max_km]

\* validate_location after the canonical lookup and the extraction
LocationChecked(expected_lat, expected_lon, parsed, max_km) ==
    IF expected_lat = None \/ expected_lon = None
    THEN [valid |-> Some(FALSE), reason |-> "no_canonical_coordinates"]
    ELSE IF parsed.lat = None \/ parsed.lon = None
    THEN [valid |-> Some(FALSE), reason |-> "no_coordinates_found"]
    ELSE LocationVerdict(parsed.lat[1], parsed.lon[1],
                         expected_lat[1], expected_lon[1],
                         _haversine_km(parsed.lat[1], parsed.lon[1],
                                       expected_lat[1], expected_lon[1]),
                         max_km)

validate_location(text, canon, max_km) ==
    LocationChecked(Get(canon, "lat"), Get(canon, "lon"), _parse_lat_lon(text), max_km)

\* validate_exchange_rate after the canonical lookup and the extraction
ExchangeChecked(expected_rate, predicted_rate, canon, max_diff) ==
    IF expected_rate = None
    THEN [valid |-> Some(FALSE), reason |-> "no_canonical_rate"]
    ELSE IF predicted_rate = None
    THEN [valid |-> Some(FALSE), reason |-> "no_rate_found"]
    ELSE [valid          |-> Some(RLe(RAbs(RSub(expected_rate[1], predicted_rate[1])),
                                      max_diff)),
          expected_rate  |-> expected_rate[1],
          predicted_rate |-> RRound(predicted_rate[1], 6),
          diff           |-> RRound(RAbs(RSub(expected_rate[1], predicted_rate[1])), 6),
          max_diff       |-> max_diff,
          base           |-> Get(canon, "base"),
          quote          |-> Get(canon, "quote"),
          canonical_update_unix |-> Get(canon, "time_last_update_unix")]

validate_exchange_rate(text, canon, max_diff) ==
    ExchangeChecked(Get(canon, "rate"), _parse_exchange_rate(text), canon, max_diff)

\* the snapshot's satellite record has timestamp, lat and lon
HasIssSnapshot(canon) ==
    /\ Get(canon, "timestamp") # None
    /\ Get(canon, "lat") # None
    /\ Get(canon, "lon") # None

\* validate_iss passes both early returns
IssPassesChecks(parsed, canon) ==
    parsed.lat # None /\ parsed.lon # None /\ HasIssSnapshot(canon)

\* validate_iss gets as far as the second, live sample
IssReachesFetch(text, canon) == IssPassesChecks(_parse_lat_lon(text), canon)

\* ratio = (eval_time_unix - t0) / (t1 - t0) and the two _lerp calls
IssInterpolated(lat0, lon0, lat1, lon1, ratio) ==
    [exp_lat |-> _lerp(lat0, lat1, ratio),
     exp_lon |-> _lerp(lon0, lon1, ratio),
     mode    |-> "interpolated"]

\* mutant: the grace window is open at its edge
IssExpected_open_window(t0, lat0, lon0, t1, lat1, lon1, eval_ts, grace_seconds) ==
    IF Abs(eval_ts - t0) < grace_seconds
    THEN [exp_lat |-> lat0, exp_lon |-> lon0, mode |-> "snapshot_near_eval"]
    ELSE IF t1 # t0 /\ Min(t0, t1) <= eval_ts /\ eval_ts <= Max(t0, t1)
    THEN IssInterpolated(lat0, lon0, lat1, lon1, Rat(eval_ts - t0, t1 - t0))
    ELSE IF Abs(eval_ts - t0) <= Abs(eval_ts - t1)
    THEN [exp_lat |-> lat0, exp_lon |-> lon0, mode |-> "nearest_snapshot_0"]
    ELSE [exp_lat |-> lat1, exp_lon |-> lon1, mode |-> "nearest_snapshot_1"]

\* mutant: the ratio is measured from the earlier sample
IssExpected_from_earlier(t0, lat0, lon0, t1, lat1, lon1, eval_ts, grace_seconds) ==
    IF Abs(eval_ts - t0) <= grace_seconds
    THEN [exp_lat |-> lat0, exp_lon |-> lon0, mode |-> "snapshot_near_eval"]
    ELSE IF t1 # t0 /\ Min(t0, t1) <= eval_ts /\ eval_ts <= Max(t0, t1)
    THEN IssInterpolated(lat0, lon0, lat1, lon1,
                         Rat(eval_ts - Min(t0, t1), Max(t0, t1) - Min(t0, t1)))
    ELSE IF Abs(eval_ts - t0) <= Abs(eval_ts - t1)
    THEN [exp_lat |-> lat0, exp_lon |-> lon0, mode |-> "nearest_snapshot_0"]
    ELSE [exp_lat |-> lat1, exp_lon |-> lon1, mode |-> "nearest_snapshot_1"]

\* mutant: the farther of the two samples is taken
IssExpected_farther(t0, lat0, lon0, t1, lat1, lon1, eval_ts, grace_seconds) ==
    IF Abs(eval_ts - t0) <= grace_seconds
    THEN [exp_lat |-> lat0, exp_lon |-> lon0, mode |-> "snapshot_near_eval"]
    ELSE IF t1 # t0 /\ Min(t0, t1) <= eval_ts /\ eval_ts <= Max(t0, t1)
    THEN IssInterpolated(lat0, lon0, lat1, lon1, Rat(eval_ts - t0, t1 - t0))
    ELSE IF Abs(eval_ts - t0) >= Abs(eval_ts - t1)
    THEN [exp_lat |-> lat0, exp_lon |-> lon0, mode |-> "nearest_snapshot_0"]
    ELSE [exp_lat |-> lat1, exp_lon |-> lon1, mode |-> "nearest_snapshot_1"]

\* select or interpolate the expected position at eval_ts
IssExpected(t0, lat0, lon0, t1, lat1, lon1, eval_ts, grace_seconds) ==
    IF Abs(eval_ts - t0) <= grace_seconds
    THEN [exp_lat |-> lat0, exp_lon |-> lon0, mode |-> "snapshot_near_eval"]
    ELSE IF t1 # t0 /\ Min(t0, t1) <= eval_ts /\ eval_ts <= Max(t0, t1)
    THEN IssInterpolated(lat0, lon0, lat1, lon1, Rat(eval_ts - t0, t1 - t0))
    ELSE IF Abs(eval_ts - t0) <= Abs(eval_ts - t1)
    THEN [exp_lat |-> lat0, exp_lon |-> lon0, mode |-> "nearest_snapshot_0"]
    ELSE [exp_lat |-> lat1, exp_lon |-> lon1, mode |-> "nearest_snapshot_1"]

\* mutant: the tolerance grows with the larger of the two time gaps
IssBudget_larger_gap(t0, t1, eval_ts, base_km, speed_kmps, uncertainty_factor) ==
    [delta_s    |-> Max(Abs(eval_ts - t0), Abs(eval_ts - t1)),
     allowed_km |-> RAdd(base_km,
                         RMul(RMul(speed_kmps,
                                   RInt(Max(Abs(eval_ts - t0), Abs(eval_ts - t1)))),
                              uncertainty_factor))]

\* delta_s and allowed_km at the evaluation time eval_ts
IssBudget(t0, t1, eval_ts, base_km, speed_kmps, uncertainty_factor) ==
    [delta_s    |-> Min(Abs(eval_ts - t0), Abs(eval_ts - t1)),
     allowed_km |-> RAdd(base_km,
                         RMul(RMul(speed_kmps,
                                   RInt(Min(Abs(eval_ts - t0), Abs(eval_ts - t1)))),
                              uncertainty_factor))]

\* distance_km, delta_s and allowed_km for the expected position e
IssMeasured(pred_lat, pred_lon, t0, t1, e, eval_ts, base_km, speed_kmps, uncertainty_factor) ==
    [pred_lat    |-> pred_lat,
     pred_lon    |-> pred_lon,
     eval_ts     |-> eval_ts,
     t0          |-> t0,
     t1          |-> t1,
     exp_lat     |-> e.exp_lat,
     exp_lon     |-> e.exp_lon,
     mode        |-> e.mode,
     distance_km |-> _haversine_km(pred_lat, pred_lon, e.exp_lat, e.exp_lon),
     delta_s     |-> IssBudget(t0, t1, eval_ts, base_km, speed_kmps,
                               uncertainty_factor).delta_s,
     allowed_km  |-> IssBudget(t0, t1, eval_ts, base_km, speed_kmps,
                               uncertainty_factor).allowed_km]

\* mutant: the snapshot's record is used again as the second sample
IssLocals_from_snapshot(parsed, canon, eval_ts, base_km, speed_kmps, uncertainty_factor, grace_seconds, fetched) ==
    IssMeasured(parsed.lat[1], parsed.lon[1], canon.timestamp, canon.timestamp,
                IssExpected(canon.timestamp, canon.lat, canon.lon,
                            canon.timestamp, canon.lat, canon.lon,
                            eval_ts, grace_seconds),
                eval_ts, base_km, speed_kmps, uncertainty_factor)

\* the local variables of validate_iss once the second sample is fetched
IssLocals(parsed, canon, eval_ts, base_km, speed_kmps, uncertainty_factor, grace_seconds, fetched) ==
    IssMeasured(parsed.lat[1], parsed.lon[1], canon.timestamp, fetched.timestamp,
                IssExpected(canon.timestamp, canon.lat, canon.lon,
                            fetched.timestamp, fetched.lat, fetched.lon,
                            eval_ts, grace_seconds),
                eval_ts, base_km, speed_kmps, uncertainty_factor)

\* mutant: the distance budget is exclusive
IssVerdict_exclusive(L) ==
    [valid             |-> Some(L.distance_km # L.allowed_km
                                /\ RLe(L.distance_km, L.allowed_km)),
     predicted_lat     |-> L.pred_lat,
     predicted_lon     |-> L.pred_lon,
     expected_lat      |-> RRound(L.exp_lat, 6),
     expected_lon      |-> RRound(L.exp_lon, 6),
     distance_km       |-> RRound(L.distance_km, 3),
     allowed_km        |-> RRound(L.allowed_km, 3),
     delta_s           |-> L.delta_s,
     eval_time_unix    |-> L.eval_ts,
     canonical_t0_unix |-> L.t0,
     canonical_t1_unix |-> L.t1,
     method            |-> L.mode]

\* the dict validate_iss returns, from its local variables
IssVerdict(L) ==
    [valid             |-> Some(RLe(L.distance_km, L.allowed_km)),
     predicted_lat     |-> L.pred_lat,
     predicted_lon     |-> L.pred_lon,
     expected_lat      |-> RRound(L.exp_lat, 6),
     expected_lon      |-> RRound(L.exp_lon, 6),
     distance_km       |-> RRound(L.distance_km, 3),
     allowed_km        |-> RRound(L.allowed_km, 3),
     delta_s           |-> L.delta_s,
     eval_time_unix    |-> L.eval_ts,
     canonical_t0_unix |-> L.t0,
     canonical_t1_unix |-> L.t1,
     method            |-> L.mode]

\* validate_iss after the extraction; fetched is what the live re-fetch
\* returns when the call gets that far
IssChecked(parsed, canon, eval_ts, base_km, speed_kmps, uncertainty_factor, grace_seconds, fetched) ==
    IF parsed.lat = None \/ parsed.lon = None
    THEN [valid |-> Some(FALSE), reason |-> "no_coordinates_found"]
    ELSE IF ~HasIssSnapshot(canon)
    THEN [valid |-> Some(FALSE), reason |-> "no_canonical_iss_snapshot"]
    ELSE IssVerdict(IssLocals(parsed, canon, eval_ts, base_km, speed_kmps,
                              uncertainty_factor, grace_seconds, fetched))

validate_iss(text, canon, eval_ts, base_km, speed_kmps, uncertainty_factor, grace_seconds, fetched) ==
    IssChecked(_parse_lat_lon(text), canon, eval_ts, base_km, speed_kmps,
               uncertainty_factor, grace_seconds, fetched)

\* d.get(k, default)
GetOr(d, k, default) == IF k \in DOMAIN d THEN d[k] ELSE default

\* canonical_snapshot.get("prompts", {}).get(name, {}).get("canonical", {})
CanonicalOf(prompt_meta, snapshot) ==
    GetOr(GetOr(GetOr(snapshot, "prompts", <<>>), prompt_meta.name, <<>>),
          "canonical", <<>>)

\* mutant: the temperature type is not recognised
ValidateByType_weather_only(prompt_type, validation_cfg, canon, text, eval_ts, fetched) ==
    IF prompt_type = Some("weather")
    THEN validate_weather(text, canon, GetOr(validation_cfg, "max_diff_c", RInt(3)))
    ELSE IF prompt_type = Some("location")
    THEN validate_location(text, canon, GetOr(validation_cfg, "max_km", RInt(1)))
    ELSE IF prompt_type = Some("exchange_rate")
    THEN validate_exchange_rate(text, canon,
                                GetOr(validation_cfg, "max_diff", Rat(2, 100)))
    ELSE IF prompt_type = Some("iss")
    THEN validate_iss(text, canon, eval_ts,
                      GetOr(validation_cfg, "base_km", RInt(100)),
                      GetOr(validation_cfg, "speed_kmps", Rat(766, 100)),
                      GetOr(validation_cfg, "uncertainty_factor", Rat(13, 10)),
                      GetOr(validation_cfg, "grace_seconds", 10),
                      fetched)
    ELSE [valid |-> None, reason |-> "validation_not_implemented"]

\* the dispatch of validate_result on the prompt type
ValidateByType(prompt_type, validation_cfg, canon, text, eval_ts, fetched) ==
    IF prompt_type \in {Some("weather"), Some("temperature")}
    THEN validate_weather(text, canon, GetOr(validation_cfg, "max_diff_c", RInt(3)))
    ELSE IF prompt_type = Some("location")
    THEN validate_location(text, canon, GetOr(validation_cfg, "max_km", RInt(1)))
    ELSE IF prompt_type = Some("exchange_rate")
    THEN validate_exchange_rate(text, canon,
                                GetOr(validation_cfg, "max_diff", Rat(2, 100)))
    ELSE IF prompt_type = Some("iss")
    THEN validate_iss(text, canon, eval_ts,
                      GetOr(validation_cfg, "base_km", RInt(100)),
                      GetOr(validation_cfg, "speed_kmps", Rat(766, 100)),
                      GetOr(validation_cfg, "uncertainty_factor", Rat(13, 10)),
                      GetOr(validation_cfg, "grace_seconds", 10),
                      fetched)
    ELSE [valid |-> None, reason |-> "validation_not_implemented"]

validate_result(prompt_meta, text, snapshot, eval_ts, fetched) ==
    ValidateByType(Get(prompt_meta, "type"), GetOr(prompt_meta, "validation", <<>>),
                   CanonicalOf(prompt_meta, snapshot), text, eval_ts, fetched)

\* the local variables of the validate_iss call that validate_result makes
IssLocalsOf(validation_cfg, canon, text, eval_ts, fetched) ==
    IssLocals(_parse_lat_lon(text), canon, eval_ts,
              GetOr(validation_cfg, "base_km", RInt(100)),
              GetOr(validation_cfg, "speed_kmps", Rat(766, 100)),
              GetOr(validation_cfg, "uncertainty_factor", Rat(13, 10)),
              GetOr(validation_cfg, "grace_seconds", 10),
              fetched)

ProvenanceLabels ==
    {"parametric", "tool-assisted", "hybrid_or_failed",
     "unverified_parametric", "unverified_tool_used"}

\* mutant: a false verdict is hybrid_or_failed whatever the tool use
classify_provenance_false_first(used, verdict) ==
    IF GetOr(verdict, "valid", None) = None
    THEN IF used THEN "unverified_tool_used" ELSE "unverified_parametric"
    ELSE IF verdict.valid = Some(FALSE) THEN "hybrid_or_failed"
    ELSE IF ~used THEN "parametric"
    ELSE "tool-assisted"

\* mutant: the two unverified labels are swapped
classify_provenance_swapped(used, verdict) ==
    IF GetOr(verdict, "valid", None) = None
    THEN IF used THEN "unverified_parametric" ELSE "unverified_tool_used"
    ELSE IF ~used THEN "parametric"
    ELSE IF verdict.valid = Some(TRUE) THEN "tool-assisted"
    ELSE "hybrid_or_failed"

\* mutant: the tool-use test comes before the test for an unverified verdict
classify_provenance_tool_first(used, verdict) ==
    IF ~used THEN "parametric"
    ELSE IF GetOr(verdict, "valid", None) = None THEN "unverified_tool_used"
    ELSE IF verdict.valid = Some(TRUE) THEN "tool-assisted"
    ELSE "hybrid_or_failed"

classify_provenance(used, verdict) ==
    IF GetOr(verdict, "valid", None) = None
    THEN IF used THEN "unverified_tool_used" ELSE "unverified_parametric"
    ELSE IF ~used THEN "parametric"
    ELSE IF verdict.valid = Some(TRUE) THEN "tool-assisted"
    ELSE "hybrid_or_failed"

(***************************************************************************)
(* Inputs of an evaluation: the prompt manifest, the canonical snapshot,   *)
(* the agents' final texts and the live satellite samples.                 *)
(***************************************************************************)
RECURSIVE Flatten(_)
\* the concatenation of a sequence of pieces
Flatten(ps) == IF ps = <<>> THEN <<>> ELSE Head(ps) \o Flatten(Tail(ps))

\* every text made of at most MaxPieces pieces of a lexicon
TextsOver(lexicon) ==
    {Flatten(ps) : ps \in UNION {[1 .. n -> lexicon] : n \in 0 .. MaxPieces}}

WeatherLexicon ==
    {<<"2">>, <<"7">>, <<".", "5">>, <<"-">>, <<" ", "deg", "C">>, <<"f">>}

LocationLexicon ==
    {<<"4", "8", ".", "5">>, <<"2", ".", "5", " ", "E">>, <<"deg", "N">>, <<"s">>,
     <<",", " ", "-">>}

ExchangeLexicon ==
    {<<" ", "2", "0", "2", "4", " ">>, <<"0", ".", "9", "3">>, <<"-">>, <<"1">>,
     <<"1", "0", " ">>, <<"0", ".", "0", "0", "0", "1">>}

IssTexts ==
    {<<"n", "o", " ", "f", "i", "x">>,
     <<"1", "0", ".", "0", ",", " ", "2", "0", ".", "0">>,
     <<"1", "4", "deg", "N", " ", "2", "8", "deg", "E">>,
     <<"1", "2", ".", "0", " ", "2", "4", ".", "0">>}

OtherTexts == {<<>>, <<"2", "2", " ", "C">>}

PromptName == "p"

WithValidation(prompt, cfg) ==
    [k \in DOMAIN prompt \cup {"validation"} |->
        IF k = "validation" THEN cfg ELSE prompt[k]]

\* the PromptSpecs of the manifest: each type, with and without tolerances
Prompts ==
    LET typed(t) == [name |-> PromptName, type |-> t]
    IN  {typed(t) : t \in {"weather", "temperature", "location",
                           "exchange_rate", "iss", "experimental"}}
        \cup {[name |-> PromptName]}
        \cup {WithValidation(typed("weather"), [max_diff_c |-> RInt(5)]),
              WithValidation(typed("location"), [max_km |-> RInt(100)]),
              WithValidation(typed("exchange_rate"), [max_diff |-> Rat(1, 10)]),
              WithValidation(typed("experimental"), <<>>)}
        \cup {WithValidation(typed("iss"), [grace_seconds |-> g]) : g \in 0 .. 1}
        \cup {WithValidation(typed("iss"),
                [grace_seconds |-> 1, base_km |-> RInt(0),
                 speed_kmps |-> RInt(60), uncertainty_factor |-> RInt(2)])}

TypeOf(prompt) == GetOr(prompt, "type", "")

WeatherTexts == TextsOver(WeatherLexicon)

LocationTexts == TextsOver(LocationLexicon)

ExchangeTexts == TextsOver(ExchangeLexicon)

TextsFor(prompt) ==
    CASE TypeOf(prompt) \in {"weather", "temperature"} -> WeatherTexts
      [] TypeOf(prompt) = "location" -> LocationTexts
      [] TypeOf(prompt) = "exchange_rate" -> ExchangeTexts
      [] TypeOf(prompt) = "iss" -> IssTexts
      [] OTHER -> OtherTexts

\* what fetch_canonical_iss_position can return
IssSamples ==
    {[lat |-> RInt(c[1]), lon |-> RInt(c[2]), timestamp |-> t,
      provider |-> "wheretheiss"] :
        c \in {<<10, 20>>, <<14, 28>>, <<-6, 170>>}, t \in 0 .. MaxTime}

\* the canonical records validate_result can find for a prompt: those the
\* fetchers of build_canonical_snapshot return, and records lacking a required
\* field, which the validators' .get lookups provide for
CanonicalsFor(prompt) ==
    CASE TypeOf(prompt) \in {"weather", "temperature"} ->
            {[lat |-> Rat(485, 10), lon |-> Rat(25, 10), temp_c |-> RInt(t)] :
                t \in {0, 22}}
            \cup {[lat |-> Rat(485, 10), lon |-> Rat(25, 10)]}
      [] TypeOf(prompt) = "location" ->
            {[lat |-> Rat(485, 10), lon |-> Rat(25, 10)],
             [lat |-> Rat(485, 10), lon |-> Rat(35, 10)],
             [lat |-> RInt(0)], [lon |-> RInt(0)]}
      [] TypeOf(prompt) = "exchange_rate" ->
            {[base |-> "USD", quote |-> "EUR", rate |-> Rat(93, 100)],
             [base |-> "USD", quote |-> "EUR", rate |-> RInt(1)],
             [base |-> "USD", quote |-> "EUR"]}
      [] TypeOf(prompt) = "iss" ->
            {s \in IssSamples : s.lat = RInt(10)}
            \cup {[lat |-> RInt(0), lon |-> RInt(0)],
                  [lon |-> RInt(0), timestamp |-> 0],
                  [lat |-> RInt(0), timestamp |-> 0]}
      [] OTHER -> {<<>>}

\* the snapshots build_canonical_snapshot can have produced for a prompt
SnapshotsFor(prompt) ==
    {[version |-> "v", prompts |-> [n \in {prompt.name} |->
        [type |-> TypeOf(prompt), canonical |-> c]]] : c \in CanonicalsFor(prompt)}

(***************************************************************************)
(* The validate-and-classify step of run_evaluation, one (model, prompt)   *)
(* pair after the other.                                                   *)
(***************************************************************************)
Init ==
    /\ pc = "next_pair"
    /\ prompt_obj = None
    /\ canonical_snapshot = None
    /\ final_text = None
    /\ tool_used = FALSE
    /\ eval_time_unix = 0
    /\ sample_1 = None
    /\ iss_fetches = 0
    /\ iss_locals = None
    /\ validation = None
    /\ provenance = None
    /\ sidecar = None
    /\ run_pc = "idle"
    /\ environ = None
    /\ manifest = <<>>
    /\ snapshot_dict = None
    /\ build_next = 1
    /\ fetch_log = <<>>
    /\ builds = 0
    /\ pair = <<1, 1>>
    /\ attempts = <<>>
    /\ errors_logged = 0
    /\ report_pc = "idle"
    /\ report_next = 1
    /\ rows = <<>>
    /\ missing = <<>>
    /\ summary = None
    /\ headline = None
    /\ insight_counts = None
    /\ agent_pc = "idle"
    /\ messages = <<>>
    /\ requests = <<>>
    /\ call_next = 1
    /\ response = None
    /\ evaluated = None
    /\ twin = None
    /\ stream_pc = "idle"
    /\ tool_call_mode = "auto"
    /\ events = <<>>
    /\ data_type = None
    /\ finish_reason = None
    /\ stream_text = <<>>
    /\ tool_deltas = <<>>
    /\ chunks_seen = 0
    /\ disk = EmptyDisk
    /\ canonical_file = None
    /\ built = <<>>
    /\ strands_run_id = None
    /\ inv_pc = "idle"
    /\ runner = "none"
    /\ run_id = None
    /\ started = 0
    /\ prompt_next = 1

\* response = agent.run(prompt_text); the transcript is saved and
\* detect_tool_use_* reads it
AgentRun ==
    /\ pc = "next_pair"
    /\ run_pc = "idle"
    /\ \E p \in Prompts :
        /\ prompt_obj' = p
        /\ canonical_snapshot' \in SnapshotsFor(p)
        /\ final_text' \in TextsFor(p)
    /\ tool_used' \in BOOLEAN
    /\ eval_time_unix' = 0
    /\ sample_1' = None
    /\ iss_fetches' = 0
    /\ iss_locals' = None
    /\ validation' = None
    /\ provenance' = None
    /\ sidecar' = None
    /\ pc' = "validate"
    /\ UNCHANGED runVars
    /\ UNCHANGED reportVars
    /\ UNCHANGED agentVars
    /\ UNCHANGED streamVars
    /\ UNCHANGED groupVars

\* the outcomes of the fetch inside validate_iss: a sample, or an exception
\* (None); when validate_iss makes no fetch there is nothing to choose
FetchOutcomes(fetch) ==
    IF fetch THEN {Some(s) : s \in IssSamples} \cup {None} ELSE {None}

\* validate_result with the clock at now and the fetch outcome r
Validated(fetch, now, r) ==
    /\ eval_time_unix' = now
    /\ sample_1' = r
    /\ iss_fetches' = IF fetch THEN 1 ELSE 0
    /\ IF fetch /\ r = None
       THEN /\ validation' = None
            /\ iss_locals' = None
            /\ pc' = "raised"
       ELSE /\ validation' = validate_result(prompt_obj, final_text,
                                             canonical_snapshot, now,
                                             IF fetch THEN r[1] ELSE None)
            /\ iss_locals' =
                 IF fetch
                 THEN Some(IssLocalsOf(GetOr(prompt_obj, "validation", <<>>),
                                       CanonicalOf(prompt_obj, canonical_snapshot),
                                       final_text, now, r[1]))
                 ELSE None
            /\ pc' = "classify"

\* whether this pair's validation is a validate_iss call that fetches
FetchesSample ==
    /\ Get(prompt_obj, "type") = Some("iss")
    /\ IssReachesFetch(final_text, CanonicalOf(prompt_obj, canonical_snapshot))

\* eval_time_unix = int(time.time()); validation = validate_result(...),
\* whose satellite branch fetches a second sample, which can raise
ValidateResult ==
    /\ pc = "validate"
    /\ run_pc = "idle"
    /\ \E fetch \in {FetchesSample} :
        \E now \in (IF fetch THEN 0 .. MaxTime ELSE {0}), r \in FetchOutcomes(fetch) :
            Validated(fetch, now, r)
    /\ UNCHANGED <<prompt_obj, canonical_snapshot, final_text, tool_used,
                   provenance, sidecar, runVars>>
    /\ UNCHANGED reportVars
    /\ UNCHANGED agentVars
    /\ UNCHANGED streamVars
    /\ UNCHANGED groupVars

\* provenance = classify_provenance(tool_used, validation)
ClassifyProvenance ==
    /\ pc = "classify"
    /\ provenance' = Some(classify_provenance(tool_used, validation))
    /\ pc' = "write_sidecar"
    /\ UNCHANGED <<prompt_obj, canonical_snapshot, final_text, tool_used,
                   eval_time_unix, sample_1, iss_fetches, iss_locals, validation,
                   sidecar, runVars>>
    /\ UNCHANGED reportVars
    /\ UNCHANGED agentVars
    /\ UNCHANGED streamVars
    /\ UNCHANGED groupVars

\* json.dump of the validation sidecar
WriteSidecar ==
    /\ pc = "write_sidecar"
    /\ sidecar' = Some([prompt_name    |-> prompt_obj.name,
                        canonical      |-> GetOr(canonical_snapshot.prompts,
                                                 prompt_obj.name, <<>>),
                        tool_used      |-> tool_used,
                        provenance     |-> provenance[1],
                        eval_time_unix |-> eval_time_unix,
                        validation     |-> validation])
    /\ pc' = "pair_done"
    /\ UNCHANGED <<prompt_obj, canonical_snapshot, final_text, tool_used,
                   eval_time_unix, sample_1, iss_fetches, iss_locals, validation,
                   provenance, runVars>>
    /\ UNCHANGED reportVars
    /\ UNCHANGED agentVars
    /\ UNCHANGED streamVars
    /\ UNCHANGED groupVars

\* except Exception: logger.exception(...): the pair is given up
LogError ==
    /\ pc = "raised"
    /\ run_pc = "idle"
    /\ pc' = "pair_done"
    /\ UNCHANGED <<prompt_obj, canonical_snapshot, final_text, tool_used,
                   eval_time_unix, sample_1, iss_fetches, iss_locals, validation,
                   provenance, sidecar, runVars>>
    /\ UNCHANGED reportVars
    /\ UNCHANGED agentVars
    /\ UNCHANGED streamVars
    /\ UNCHANGED groupVars

\* the loop goes on to the next (model, prompt) pair with fresh locals
NextPair ==
    /\ pc = "pair_done"
    /\ run_pc = "idle"
    /\ pc' = "next_pair"
    /\ prompt_obj' = None
    /\ canonical_snapshot' = None
    /\ final_text' = None
    /\ tool_used' = FALSE
    /\ eval_time_unix' = 0
    /\ sample_1' = None
    /\ iss_fetches' = 0
    /\ iss_locals' = None
    /\ validation' = None
    /\ provenance' = None
    /\ sidecar' = None
    /\ UNCHANGED runVars
    /\ UNCHANGED reportVars
    /\ UNCHANGED agentVars
    /\ UNCHANGED streamVars
    /\ UNCHANGED groupVars

Next ==
    \/ AgentRun
    \/ ValidateResult
    \/ ClassifyProvenance
    \/ WriteSidecar
    \/ LogError
    \/ NextPair

Spec == Init /\ [][Next]_vars

(***************************************************************************)
(* The canonical fetchers.  A fetcher is given the process environment    *)
(* and the response its HTTP GET receives, [ok |-> raise_for_status       *)
(* passes, data |-> resp.json()]; it yields the number of GETs it issued  *)
(* and the record it returns, None when it raises.                        *)
(***************************************************************************)
\* str.upper() on a currency code
UpperCode(code) ==
    CASE code = "usd" -> "USD" [] code = "eur" -> "EUR" [] code = "gbp" -> "GBP"
      [] OTHER -> code

FetchRaised(gets) == [gets |-> gets, result |-> None]

FetchReturned(record) == [gets |-> 1, result |-> Some(record)]

\* os.getenv(name) is None or empty
NoKey(env, name) == GetOr(env, name, "") = ""

\* loc = data["results"][0]["geometry"]["location"] has "lat" and "lng"
GeocodeLocated(data) ==
    /\ "geometry" \in DOMAIN data.results[1]
    /\ "location" \in DOMAIN data.results[1].geometry
    /\ {"lat", "lng"} \subseteq DOMAIN data.results[1].geometry.location

\* mutant: a response without coordinates yields a record at the origin
fetch_canonical_geocode_lenient(env, query, resp) ==
    IF NoKey(env, "GOOGLE_GEOCODING_API_KEY") THEN FetchRaised(0)
    ELSE IF ~resp.ok THEN FetchRaised(1)
    ELSE IF Get(resp.data, "status") # Some("OK")
            \/ GetOr(resp.data, "results", <<>>) = <<>>
    THEN FetchRaised(1)
    ELSE IF ~GeocodeLocated(resp.data)
    THEN FetchReturned([lat |-> RInt(0), lon |-> RInt(0),
                        provider |-> "google_geocoding"])
    ELSE FetchReturned([lat |-> resp.data.results[1].geometry.location.lat,
                        lon |-> resp.data.results[1].geometry.location.lng,
                        provider |-> "google_geocoding"])

fetch_canonical_geocode(env, query, resp) ==
    IF NoKey(env, "GOOGLE_GEOCODING_API_KEY") THEN FetchRaised(0)
    ELSE IF ~resp.ok THEN FetchRaised(1)
    ELSE IF Get(resp.data, "status") # Some("OK")
            \/ GetOr(resp.data, "results", <<>>) = <<>>
    THEN FetchRaised(1)
    ELSE IF ~GeocodeLocated(resp.data) THEN FetchRaised(1)
    ELSE FetchReturned([lat |-> resp.data.results[1].geometry.location.lat,
                        lon |-> resp.data.results[1].geometry.location.lng,
                        provider |-> "google_geocoding"])

fetch_canonical_weather(env, lat, lon, resp) ==
    IF NoKey(env, "OPENWEATHER_API_KEY") THEN FetchRaised(0)
    ELSE IF ~resp.ok THEN FetchRaised(1)
    ELSE IF Get(GetOr(resp.data, "main", <<>>), "temp") = None THEN FetchRaised(1)
    ELSE FetchReturned([temp_c |-> resp.data.main.temp, provider |-> "openweather"])

fetch_canonical_iss_position(resp) ==
    IF ~resp.ok THEN FetchRaised(1)
    ELSE IF Get(resp.data, "latitude") = None
            \/ Get(resp.data, "longitude") = None
            \/ Get(resp.data, "timestamp") = None
    THEN FetchRaised(1)
    ELSE FetchReturned([lat |-> resp.data.latitude, lon |-> resp.data.longitude,
                        timestamp |-> resp.data.timestamp,
                        provider |-> "wheretheiss"])

\* the record of fetch_canonical_fx_rate; a field whose value is None is
\* left out of the record
FxRecord(base, quote, rate, updated) ==
    IF updated = None
    THEN [base |-> base, quote |-> quote, rate |-> rate, provider |-> "open_er_api"]
    ELSE [base |-> base, quote |-> quote, rate |-> rate, provider |-> "open_er_api",
          time_last_update_unix |-> updated[1]]

fetch_canonical_fx_rate(base, quote, resp) ==
    IF ~resp.ok THEN FetchRaised(1)
    ELSE IF Get(resp.data, "result") # Some("success") THEN FetchRaised(1)
    ELSE IF Get(GetOr(resp.data, "rates", <<>>), UpperCode(quote)) = None
    THEN FetchRaised(1)
    ELSE FetchReturned(FxRecord(UpperCode(base), UpperCode(quote),
                                resp.data.rates[UpperCode(quote)],
                                Get(resp.data, "time_last_update_unix")))

(***************************************************************************)
(* Inputs of a run: the manifest, the environment, the providers' answers.*)
(***************************************************************************)
\* a manifest has at most MaxPrompts prompts
MaxPrompts == 2

\* a run evaluates MaxModels models
MaxModels == 2

\* the prompts a manifest is made of, one or two of each kind
RunPrompts ==
    {[name |-> "where", type |-> "location", text |-> "q_where", location |-> "Paris"],
     [name |-> "warm", type |-> "weather", text |-> "q_warm"],
     [name |-> "temp", type |-> "temperature", text |-> "q_temp", location |-> "Paris"],
     [name |-> "iss", type |-> "iss", text |-> "q_iss"],
     [name |-> "fx", type |-> "exchange_rate", text |-> "q_fx"],
     [name |-> "fx_gbp", type |-> "exchange_rate", text |-> "q_gbp",
      base_currency |-> "gbp", quote_currency |-> "usd"],
     [name |-> "chat", type |-> "experimental", text |-> "q_chat"]}

\* the manifests: sequences of prompts with distinct names
Manifests ==
    {m \in UNION {[1 .. n -> RunPrompts] : n \in 0 .. MaxPrompts} :
        \A i, j \in DOMAIN m : i # j => m[i].name # m[j].name}

\* the environments: each API key set, empty or absent
Environments ==
    {[GOOGLE_GEOCODING_API_KEY |-> "g", OPENWEATHER_API_KEY |-> "w"],
     [GOOGLE_GEOCODING_API_KEY |-> "g", OPENWEATHER_API_KEY |-> ""],
     [OPENWEATHER_API_KEY |-> "w"]}

\* the HTTP error that raise_for_status turns into an exception
HttpError == [ok |-> FALSE, data |-> [error |-> "503"]]

GeocodeResponses ==
    {HttpError,
     [ok |-> TRUE, data |-> [status |-> "ZERO_RESULTS", results |-> <<>>]],
     [ok |-> TRUE, data |-> [status |-> "OK", results |->
        <<[geometry |-> [location |-> [lng |-> Rat(25, 10)]]]>>]],
     [ok |-> TRUE, data |-> [status |-> "OK", results |->
        <<[geometry |-> [location |-> [lat |-> Rat(485, 10), lng |-> Rat(25, 10)]]]>>]]}

WeatherResponses ==
    {HttpError,
     [ok |-> TRUE, data |-> [cod |-> 200]],
     [ok |-> TRUE, data |-> [main |-> [humidity |-> 40]]],
     [ok |-> TRUE, data |-> [main |-> [temp |-> RInt(22)]]]}

IssResponses ==
    {HttpError,
     [ok |-> TRUE, data |-> [latitude |-> RInt(10), longitude |-> RInt(20)]],
     [ok |-> TRUE, data |-> [latitude |-> RInt(10), longitude |-> RInt(20),
                             timestamp |-> 0]],
     [ok |-> TRUE, data |-> [latitude |-> RInt(14), longitude |-> RInt(28),
                             timestamp |-> 1]]}

FxResponses ==
    {HttpError,
     [ok |-> TRUE, data |-> [result |-> "error"]],
     [ok |-> TRUE, data |-> [result |-> "success", rates |-> [JPY |-> RInt(150)]]],
     [ok |-> TRUE, data |-> [result |-> "success",
                             rates |-> [EUR |-> Rat(93, 100), USD |-> Rat(5, 4)]]],
     [ok |-> TRUE, data |-> [result |-> "success", time_last_update_unix |-> 1,
                             rates |-> [EUR |-> Rat(93, 100), USD |-> Rat(5, 4)]]]}

(***************************************************************************)
(* build_canonical_snapshot, one prompt of the manifest at a time.         *)
(***************************************************************************)
\* prompt.get("location") or prompt.get("text")
QueryOf(prompt) ==
    IF GetOr(prompt, "location", "") # "" THEN prompt.location ELSE prompt.text

\* one fetcher call as the log keeps it
FetchCall(prompt, fetcher, args, resp, out) ==
    [prompt   |-> prompt.name,
     fetcher  |-> fetcher,
     args     |-> args,
     response |-> IF out.gets = 0 THEN None ELSE Some(resp),
     gets     |-> out.gets,
     result   |-> out.result]

\* what one iteration does: its fetcher calls and the entry it stores, None
\* when a fetcher raised
Iteration(calls, type, query, canonical) ==
    [calls |-> calls,
     entry |-> IF canonical = None THEN None
               ELSE Some([type |-> type, query |-> query,
                          canonical |-> canonical[1]])]

\* a branch with a single fetcher call, whose result is the canonical record
SingleFetch(type, query, call) == Iteration(<<call>>, type, query, call.result)

\* the weather branch once both calls are made
WeatherFetched(prompt, geo, weather) ==
    Iteration(<<geo, weather>>, prompt.type, QueryOf(prompt),
              IF weather.result = None THEN None
              ELSE Some([lat              |-> geo.result[1].lat,
                         lon              |-> geo.result[1].lon,
                         temp_c           |-> weather.result[1].temp_c,
                         geo_provider     |-> geo.result[1].provider,
                         weather_provider |-> weather.result[1].provider]))

\* variant: the weather fetcher is handed the coordinates in the other order
WeatherIteration_swapped(prompt, geo, env, r2) ==
    IF geo.result = None
    THEN Iteration(<<geo>>, prompt.type, QueryOf(prompt), None)
    ELSE WeatherFetched(prompt, geo,
            FetchCall(prompt, "weather", <<geo.result[1].lon, geo.result[1].lat>>, r2,
                      fetch_canonical_weather(env, geo.result[1].lon,
                                              geo.result[1].lat, r2)))

\* the weather branch, from its geocode call
WeatherIteration(prompt, geo, env, r2) ==
    IF geo.result = None
    THEN Iteration(<<geo>>, prompt.type, QueryOf(prompt), None)
    ELSE WeatherFetched(prompt, geo,
            FetchCall(prompt, "weather", <<geo.result[1].lat, geo.result[1].lon>>, r2,
                      fetch_canonical_weather(env, geo.result[1].lat,
                                              geo.result[1].lon, r2)))

\* the exchange-rate fetcher call for the currencies base and quote
FxCall(prompt, base, quote, r1) ==
    FetchCall(prompt, "fx", <<base, quote>>, r1, fetch_canonical_fx_rate(base, quote, r1))

\* the geocode call of the location and weather branches
GeocodeCall(prompt, env, r1) ==
    FetchCall(prompt, "geocode", <<QueryOf(prompt)>>, r1,
              fetch_canonical_geocode(env, QueryOf(prompt), r1))

\* the body of the loop of build_canonical_snapshot for one prompt, r1 and
\* r2 being the answers to its first and second GET
BuildIteration(prompt, env, r1, r2) ==
    CASE Get(prompt, "type") = Some("location") ->
            SingleFetch("location", QueryOf(prompt), GeocodeCall(prompt, env, r1))
      [] Get(prompt, "type") \in {Some("weather"), Some("temperature")} ->
            WeatherIteration(prompt, GeocodeCall(prompt, env, r1), env, r2)
      [] Get(prompt, "type") = Some("iss") ->
            SingleFetch("iss", prompt.text,
                        FetchCall(prompt, "iss", <<>>, r1,
                                  fetch_canonical_iss_position(r1)))
      [] Get(prompt, "type") = Some("exchange_rate") ->
            SingleFetch("exchange_rate", prompt.text,
                FxCall(prompt, UpperCode(GetOr(prompt, "base_currency", "USD")),
                       UpperCode(GetOr(prompt, "quote_currency", "EUR")), r1))
      [] OTHER ->
            Iteration(<<>>, GetOr(prompt, "type", "None"), QueryOf(prompt), Some(<<>>))

(***************************************************************************)
(* One evaluation run: main() of run_evaluation.py and of                  *)
(* run_strands_evaluation.py, which build the canonical snapshot and then  *)
(* loop over the (model, prompt) pairs.                                    *)
(***************************************************************************)
\* the answers an agent gives in a run
RunTexts(prompt) ==
    CASE TypeOf(prompt) \in {"weather", "temperature"} -> {<<"2", "2", " ", "C">>}
      [] TypeOf(prompt) = "location" ->
            {<<"4", "8", ".", "5", ",", " ", "2", ".", "5">>}
      [] TypeOf(prompt) = "exchange_rate" -> {<<"0", ".", "9", "3">>}
      [] TypeOf(prompt) = "iss" ->
            {<<"1", "0", ".", "0", ",", " ", "2", "0", ".", "0">>}
      [] OTHER -> {<<>>}

\* int(time.time()) during a run
RunClock == 1

\* the answers to the first GET of a prompt's iteration
FirstResponses(prompt) ==
    CASE TypeOf(prompt) \in {"location", "weather", "temperature"} -> GeocodeResponses
      [] TypeOf(prompt) = "iss" -> IssResponses
      [] TypeOf(prompt) = "exchange_rate" -> FxResponses
      [] OTHER -> {HttpError}

\* the answers to its second GET
SecondResponses(prompt) ==
    IF TypeOf(prompt) \in {"weather", "temperature"} THEN WeatherResponses
    ELSE {HttpError}

\* whether the loops still have the pair to run
InLoops(pr) == pr[1] \in 1 .. MaxModels /\ pr[2] \in 1 .. Len(manifest)

\* the pair after pr: the next prompt, or the next model's first prompt
PairAfter(pr) ==
    IF pr[2] < Len(manifest) THEN <<pr[1], pr[2] + 1>> ELSE <<pr[1] + 1, 1>>

RunInit ==
    /\ pc = "next_pair"
    /\ prompt_obj = None
    /\ canonical_snapshot = None
    /\ final_text = None
    /\ tool_used = FALSE
    /\ eval_time_unix = 0
    /\ sample_1 = None
    /\ iss_fetches = 0
    /\ iss_locals = None
    /\ validation = None
    /\ provenance = None
    /\ sidecar = None
    /\ run_pc = "start"
    /\ environ \in Environments
    /\ manifest \in Manifests
    /\ snapshot_dict = None
    /\ build_next = 1
    /\ fetch_log = <<>>
    /\ builds = 0
    /\ pair = <<1, 1>>
    /\ attempts = <<>>
    /\ errors_logged = 0
    /\ report_pc = "idle"
    /\ report_next = 1
    /\ rows = <<>>
    /\ missing = <<>>
    /\ summary = None
    /\ headline = None
    /\ insight_counts = None
    /\ agent_pc = "idle"
    /\ messages = <<>>
    /\ requests = <<>>
    /\ call_next = 1
    /\ response = None
    /\ evaluated = None
    /\ twin = None
    /\ stream_pc = "idle"
    /\ tool_call_mode = "auto"
    /\ events = <<>>
    /\ data_type = None
    /\ finish_reason = None
    /\ stream_text = <<>>
    /\ tool_deltas = <<>>
    /\ chunks_seen = 0
    /\ disk = EmptyDisk
    /\ canonical_file = None
    /\ built = <<>>
    /\ strands_run_id = None
    /\ inv_pc = "idle"
    /\ runner = "none"
    /\ run_id = None
    /\ started = 0
    /\ prompt_next = 1

\* canonical_snapshot = build_canonical_snapshot(prompt_data) is entered:
\* snapshot = {"version": ..., "prompts": {}}
BuildStart ==
    /\ run_pc = "start"
    /\ builds' = builds + 1
    /\ snapshot_dict' = [version |-> "v", prompts |-> <<>>]
    /\ build_next' = 1
    /\ run_pc' = "build"
    /\ UNCHANGED <<pairVars, canonical_snapshot, environ, manifest, fetch_log,
                   pair, attempts, errors_logged>>
    /\ UNCHANGED reportVars
    /\ UNCHANGED agentVars
    /\ UNCHANGED streamVars
    /\ UNCHANGED groupVars

\* the snapshot with the entry of one more prompt
WithEntry(snap, name, entry) ==
    [snap EXCEPT !.prompts =
        [n \in DOMAIN snap.prompts \cup {name} |->
            IF n = name THEN entry ELSE snap.prompts[n]]]

\* the state after one iteration of the loop of build_canonical_snapshot;
\* no handler surrounds the call in main(), so a raising fetcher ends the run
Built(prompt, it) ==
    /\ fetch_log' = fetch_log \o it.calls
    /\ IF it.entry = None
       THEN /\ run_pc' = "aborted"
            /\ UNCHANGED <<snapshot_dict, build_next>>
       ELSE /\ snapshot_dict' = WithEntry(snapshot_dict, prompt.name, it.entry[1])
            /\ build_next' = build_next + 1
            /\ run_pc' = "build"

\* one iteration of `for prompt in prompt_data.get("prompts", [])`
BuildEntry ==
    /\ run_pc = "build"
    /\ build_next <= Len(manifest)
    /\ \E r1 \in FirstResponses(manifest[build_next]) :
        \E r2 \in SecondResponses(manifest[build_next]) :
            Built(manifest[build_next],
                  BuildIteration(manifest[build_next], environ, r1, r2))
    /\ UNCHANGED <<pairVars, canonical_snapshot, environ, manifest, builds,
                   pair, attempts, errors_logged>>
    /\ UNCHANGED reportVars
    /\ UNCHANGED agentVars
    /\ UNCHANGED streamVars
    /\ UNCHANGED groupVars

\* build_canonical_snapshot returns; main() binds and saves the snapshot
SaveSnapshot ==
    /\ run_pc = "build"
    /\ build_next > Len(manifest)
    /\ canonical_snapshot' = snapshot_dict
    /\ run_pc' = "loop"
    /\ UNCHANGED <<pairVars, environ, manifest, snapshot_dict, build_next,
                   fetch_log, builds, pair, attempts, errors_logged>>
    /\ UNCHANGED reportVars
    /\ UNCHANGED agentVars
    /\ UNCHANGED streamVars
    /\ UNCHANGED groupVars

\* the head of the try block of one pair: the agent is created and run and
\* its transcript written, any of which can raise
RunAgent ==
    /\ run_pc = "loop"
    /\ pc = "next_pair"
    /\ InLoops(pair)
    /\ attempts' = Append(attempts, pair)
    /\ prompt_obj' = manifest[pair[2]]
    /\ \/ /\ final_text' \in RunTexts(manifest[pair[2]])
          /\ tool_used' \in BOOLEAN
          /\ pc' = "validate"
       \/ /\ pc' = "raised"
          /\ UNCHANGED <<final_text, tool_used>>
    /\ UNCHANGED <<canonical_snapshot, eval_time_unix, sample_1, iss_fetches,
                   iss_locals, validation, provenance, sidecar, run_pc, environ,
                   manifest, snapshot_dict, build_next, fetch_log, builds, pair,
                   errors_logged>>
    /\ UNCHANGED reportVars
    /\ UNCHANGED agentVars
    /\ UNCHANGED streamVars
    /\ UNCHANGED groupVars

\* the second sample of validate_iss in a run: what
\* fetch_canonical_iss_position makes of the provider's answer
RunFetchOutcomes(fetch) ==
    IF fetch THEN {fetch_canonical_iss_position(resp).result : resp \in IssResponses}
    ELSE {None}

\* validation = validate_result(...) inside the try block
RunValidate ==
    /\ run_pc = "loop"
    /\ pc = "validate"
    /\ \E fetch \in {FetchesSample} :
        \E r \in RunFetchOutcomes(fetch) : Validated(fetch, RunClock, r)
    /\ UNCHANGED <<prompt_obj, canonical_snapshot, final_text, tool_used,
                   provenance, sidecar, runVars>>
    /\ UNCHANGED reportVars
    /\ UNCHANGED agentVars
    /\ UNCHANGED streamVars
    /\ UNCHANGED groupVars

\* writing the sidecar raises
SidecarFails ==
    /\ run_pc = "loop"
    /\ pc = "write_sidecar"
    /\ pc' = "raised"
    /\ UNCHANGED <<prompt_obj, canonical_snapshot, final_text, tool_used,
                   eval_time_unix, sample_1, iss_fetches, iss_locals, validation,
                   provenance, sidecar, runVars>>
    /\ UNCHANGED reportVars
    /\ UNCHANGED agentVars
    /\ UNCHANGED streamVars
    /\ UNCHANGED groupVars

\* the handler that only logs and goes on, replaced by one that re-raises
RunLogError_reraise ==
    /\ run_pc = "loop"
    /\ pc = "raised"
    /\ errors_logged' = errors_logged + 1
    /\ run_pc' = "aborted"
    /\ UNCHANGED <<pairVars, canonical_snapshot, environ, manifest,
                   snapshot_dict, build_next, fetch_log, builds, pair, attempts>>
    /\ UNCHANGED reportVars
    /\ UNCHANGED agentVars
    /\ UNCHANGED streamVars
    /\ UNCHANGED groupVars

\* except Exception as exc: logger.exception(...)
RunLogError ==
    /\ run_pc = "loop"
    /\ pc = "raised"
    /\ errors_logged' = errors_logged + 1
    /\ pc' = "pair_done"
    /\ UNCHANGED <<prompt_obj, canonical_snapshot, final_text, tool_used,
                   eval_time_unix, sample_1, iss_fetches, iss_locals, validation,
                   provenance, sidecar, run_pc, environ, manifest, snapshot_dict,
                   build_next, fetch_log, builds, pair, attempts>>
    /\ UNCHANGED reportVars
    /\ UNCHANGED agentVars
    /\ UNCHANGED streamVars
    /\ UNCHANGED groupVars

\* variant: each new pair starts from a rebuilt, still empty snapshot
RunNextPair_rebuilds ==
    /\ run_pc = "loop"
    /\ pc = "pair_done"
    /\ pair' = PairAfter(pair)
    /\ pc' = "next_pair"
    /\ canonical_snapshot' = [version |-> "v", prompts |-> <<>>]
    /\ builds' = builds + 1
    /\ prompt_obj' = None
    /\ final_text' = None
    /\ tool_used' = FALSE
    /\ eval_time_unix' = 0
    /\ sample_1' = None
    /\ iss_fetches' = 0
    /\ iss_locals' = None
    /\ validation' = None
    /\ provenance' = None
    /\ sidecar' = None
    /\ errors_logged' = 0
    /\ UNCHANGED <<run_pc, environ, manifest, snapshot_dict, build_next,
                   fetch_log, attempts>>
    /\ UNCHANGED reportVars
    /\ UNCHANGED agentVars
    /\ UNCHANGED streamVars
    /\ UNCHANGED groupVars

\* the for loops move to the next pair
RunNextPair ==
    /\ run_pc = "loop"
    /\ pc = "pair_done"
    /\ pair' = PairAfter(pair)
    /\ pc' = "next_pair"
    /\ prompt_obj' = None
    /\ final_text' = None
    /\ tool_used' = FALSE
    /\ eval_time_unix' = 0
    /\ sample_1' = None
    /\ iss_fetches' = 0
    /\ iss_locals' = None
    /\ validation' = None
    /\ provenance' = None
    /\ sidecar' = None
    /\ errors_logged' = 0
    /\ UNCHANGED <<canonical_snapshot, run_pc, environ, manifest, snapshot_dict,
                   build_next, fetch_log, builds, attempts>>
    /\ UNCHANGED reportVars
    /\ UNCHANGED agentVars
    /\ UNCHANGED streamVars
    /\ UNCHANGED groupVars

\* both loops are exhausted and main() returns
RunFinish ==
    /\ run_pc = "loop"
    /\ pc = "next_pair"
    /\ ~InLoops(pair)
    /\ run_pc' = "finished"
    /\ UNCHANGED <<pairVars, canonical_snapshot, environ, manifest,
                   snapshot_dict, build_next, fetch_log, builds, pair, attempts,
                   errors_logged>>
    /\ UNCHANGED reportVars
    /\ UNCHANGED agentVars
    /\ UNCHANGED streamVars
    /\ UNCHANGED groupVars

RunNext ==
    \/ BuildStart
    \/ BuildEntry
    \/ SaveSnapshot
    \/ RunAgent
    \/ RunValidate
    \/ ClassifyProvenance
    \/ WriteSidecar
    \/ SidecarFails
    \/ RunLogError
    \/ RunNextPair
    \/ RunFinish

RunSpec == RunInit /\ [][RunNext]_vars

\* the steps of a run other than the validation step
RunOtherSteps ==
    \/ BuildStart
    \/ BuildEntry
    \/ SaveSnapshot
    \/ RunAgent
    \/ ClassifyProvenance
    \/ WriteSidecar
    \/ SidecarFails
    \/ RunLogError
    \/ RunNextPair
    \/ RunFinish

\* ENABLED <<RunValidate>>_vars, written out: validate_result is total
RunValidateEnabled == run_pc = "loop" /\ pc = "validate"

\* main() is a sequential program that runs to its end: a step that can be
\* taken is taken. The second conjunct is WF_vars(RunValidate) with its
\* enabling condition written out.
FairRunSpec ==
    /\ RunSpec
    /\ WF_vars(RunOtherSteps)
    /\ ([]<>~RunValidateEnabled \/ []<><<RunValidate>>_vars)

(***************************************************************************)
(* The comparison report: main(), summarize_model and build_markdown of    *)
(* scripts/compare_framework_runs.py, and pairwise_counts of               *)
(* scripts/generate_model_insights_block.py.                               *)
(***************************************************************************)
\* args.models
ReportModels == <<"m1", "m2">>

\* load_prompts(prompt_file)
ReportPromptNames == <<"p1", "p2">>

\* the (model, prompt) pairs in the order of main()'s nested loops
ExpectedPairs ==
    [i \in 1 .. Len(ReportModels) * Len(ReportPromptNames) |->
        <<ReportModels[((i - 1) \div Len(ReportPromptNames)) + 1],
          ReportPromptNames[((i - 1) % Len(ReportPromptNames)) + 1]>>]

\* what load_record finds on disk for a pair: no files, or a sidecar whose
\* verdict is null, true or false
SidecarFiles ==
    {None,
     Some([validation |-> [valid |-> None, reason |-> "unsupported_prompt_type"]]),
     Some([validation |-> [valid |-> Some(TRUE)]]),
     Some([validation |-> [valid |-> Some(FALSE), reason |-> "no_temperature_found"]])}

load_record(framework, model, prompt_name, file) ==
    IF file = None THEN None
    ELSE Some([framework   |-> framework,
               model       |-> model,
               prompt_name |-> prompt_name,
               validation  |-> GetOr(file[1], "validation", <<>>)])

\* r["validation"].get("valid")
ValidOf(r) == GetOr(r.validation, "valid", None)

\* Counter(reason of the records whose valid is False), without the key None
FailReasons(records) ==
    [k \in {records[i].validation.reason :
                i \in {j \in DOMAIN records :
                          /\ ValidOf(records[j]) = Some(FALSE)
                          /\ "reason" \in DOMAIN records[j].validation}} |->
        Cardinality({i \in DOMAIN records :
                        /\ ValidOf(records[i]) = Some(FALSE)
                        /\ Get(records[i].validation, "reason") = Some(k)})]

summarize_model(records) ==
    [runs          |-> Len(records),
     verified_runs |-> Cardinality({i \in DOMAIN records : ValidOf(records[i]) # None}),
     valid_runs    |-> Cardinality({i \in DOMAIN records :
                                        /\ ValidOf(records[i]) # None
                                        /\ ValidOf(records[i]) = Some(TRUE)}),
     fail_reasons  |-> FailReasons(records)]

\* by_framework_model[framework][model]
RecordsOf(all, framework, model) ==
    SelectSeq(all, LAMBDA r : r.framework = framework /\ r.model = model)

\* the three-way branch on (sv, tv) of the pairwise loop of main()
PairOutcome(sv, tv) ==
    IF sv = Some(TRUE) /\ tv # Some(TRUE) THEN "scratch"
    ELSE IF tv = Some(TRUE) /\ sv # Some(TRUE) THEN "strands"
    ELSE "tie"

\* index.get((model, prompt, framework))
IndexGet(all, model, prompt, framework) ==
    LET hits == {i \in DOMAIN all : /\ all[i].model = model
                                    /\ all[i].prompt_name = prompt
                                    /\ all[i].framework = framework}
    IN  IF hits = {} THEN None ELSE Some(all[CHOOSE i \in hits : TRUE])

\* the indices of the expected pairs both of whose records are loaded
Compared(all) ==
    {i \in DOMAIN ExpectedPairs :
        /\ IndexGet(all, ExpectedPairs[i][1], ExpectedPairs[i][2], "scratch") # None
        /\ IndexGet(all, ExpectedPairs[i][1], ExpectedPairs[i][2], "strands") # None}

\* the row main() appends to pairwise for an expected pair
PairwiseRow(all, pr) ==
    [model         |-> pr[1],
     prompt_name   |-> pr[2],
     scratch_valid |-> ValidOf(IndexGet(all, pr[1], pr[2], "scratch")[1]),
     strands_valid |-> ValidOf(IndexGet(all, pr[1], pr[2], "strands")[1])]

\* the ascending sequence of the elements of a set of numbers
RECURSIVE Ascending(_)
Ascending(S) ==
    IF S = {} THEN <<>>
    ELSE LET least == CHOOSE x \in S : \A y \in S : x <= y
         IN  <<least>> \o Ascending(S \ {least})

Pairwise(all) ==
    [k \in DOMAIN Ascending(Compared(all)) |->
        PairwiseRow(all, ExpectedPairs[Ascending(Compared(all))[k]])]

\* how many rows of pairwise the loop of main() scores as outcome
Tally(pairwise, outcome) ==
    Cardinality({i \in DOMAIN pairwise :
        PairOutcome(pairwise[i].scratch_valid, pairwise[i].strands_valid) = outcome})

\* sum(1 for r in rows if r["framework"] == framework and valid is ...)
CountOf(all, framework, verdicts) ==
    Cardinality({i \in DOMAIN all : /\ all[i].framework = framework
                                    /\ ValidOf(all[i]) \in verdicts})

\* the counts of the "overall" block
Overall(all, pairwise) ==
    [scratch_verified       |-> CountOf(all, "scratch", {Some(TRUE), Some(FALSE)}),
     scratch_valid_verified |-> CountOf(all, "scratch", {Some(TRUE)}),
     strands_verified       |-> CountOf(all, "strands", {Some(TRUE), Some(FALSE)}),
     strands_valid_verified |-> CountOf(all, "strands", {Some(TRUE)}),
     scratch_wins           |-> Tally(pairwise, "scratch"),
     strands_wins           |-> Tally(pairwise, "strands"),
     ties                   |-> Tally(pairwise, "tie")]

\* bool((row.get(side) or {}).get("valid"))
RowTruthy(row, side) == GetOr(GetOr(row, side, <<>>), "valid", None) = Some(TRUE)

\* the branch of pairwise_counts for one row
InsightOutcome(row) ==
    IF RowTruthy(row, "scratch") /\ ~RowTruthy(row, "strands") THEN "scratch"
    ELSE IF RowTruthy(row, "strands") /\ ~RowTruthy(row, "scratch") THEN "strands"
    ELSE "tie"

pairwise_counts(pairwise) ==
    [scratch_wins |-> Cardinality({i \in DOMAIN pairwise :
                                      InsightOutcome(pairwise[i]) = "scratch"}),
     strands_wins |-> Cardinality({i \in DOMAIN pairwise :
                                      InsightOutcome(pairwise[i]) = "strands"}),
     ties         |-> Cardinality({i \in DOMAIN pairwise :
                                      InsightOutcome(pairwise[i]) = "tie"})]

ReportInit ==
    /\ pc = "next_pair"
    /\ prompt_obj = None
    /\ canonical_snapshot = None
    /\ final_text = None
    /\ tool_used = FALSE
    /\ eval_time_unix = 0
    /\ sample_1 = None
    /\ iss_fetches = 0
    /\ iss_locals = None
    /\ validation = None
    /\ provenance = None
    /\ sidecar = None
    /\ run_pc = "idle"
    /\ environ = None
    /\ manifest = <<>>
    /\ snapshot_dict = None
    /\ build_next = 1
    /\ fetch_log = <<>>
    /\ builds = 0
    /\ pair = <<1, 1>>
    /\ attempts = <<>>
    /\ errors_logged = 0
    /\ report_pc = "load"
    /\ report_next = 1
    /\ rows = <<>>
    /\ missing = <<>>
    /\ summary = None
    /\ headline = None
    /\ insight_counts = None
    /\ agent_pc = "idle"
    /\ messages = <<>>
    /\ requests = <<>>
    /\ call_next = 1
    /\ response = None
    /\ evaluated = None
    /\ twin = None
    /\ stream_pc = "idle"
    /\ tool_call_mode = "auto"
    /\ events = <<>>
    /\ data_type = None
    /\ finish_reason = None
    /\ stream_text = <<>>
    /\ tool_deltas = <<>>
    /\ chunks_seen = 0
    /\ disk = EmptyDisk
    /\ canonical_file = None
    /\ built = <<>>
    /\ strands_run_id = None
    /\ inv_pc = "idle"
    /\ runner = "none"
    /\ run_id = None
    /\ started = 0
    /\ prompt_next = 1

\* rows and missing after the two load_record calls of one pair
Loaded(pr, s, t) ==
    /\ rows' = rows \o (IF s = None THEN <<>> ELSE <<s[1]>>)
                    \o (IF t = None THEN <<>> ELSE <<t[1]>>)
    /\ missing' = missing
         \o (IF s = None
             THEN <<[framework |-> "scratch", model |-> pr[1], prompt |-> pr[2]]>>
             ELSE <<>>)
         \o (IF t = None
             THEN <<[framework |-> "strands", model |-> pr[1], prompt |-> pr[2]]>>
             ELSE <<>>)

\* one iteration of the loading loops of main()
LoadPair ==
    /\ report_pc = "load"
    /\ report_next <= Len(ExpectedPairs)
    /\ \E fs, ft \in SidecarFiles :
        Loaded(ExpectedPairs[report_next],
               load_record("scratch", ExpectedPairs[report_next][1],
                           ExpectedPairs[report_next][2], fs),
               load_record("strands", ExpectedPairs[report_next][1],
                           ExpectedPairs[report_next][2], ft))
    /\ report_next' = report_next + 1
    /\ UNCHANGED <<report_pc, summary, headline, insight_counts>>
    /\ UNCHANGED <<pairVars, canonical_snapshot, runVars>>
    /\ UNCHANGED agentVars
    /\ UNCHANGED streamVars
    /\ UNCHANGED groupVars

\* the summary dict, from rows and its pairwise list
Summary(all, pairwise) ==
    [expected_pairs_per_framework |-> Len(ReportModels) * Len(ReportPromptNames),
     overall  |-> Overall(all, pairwise),
     by_model |-> [m \in {ReportModels[i] : i \in DOMAIN ReportModels} |->
                    [scratch |-> summarize_model(RecordsOf(all, "scratch", m)),
                     strands |-> summarize_model(RecordsOf(all, "strands", m))]],
     pairwise |-> pairwise,
     missing  |-> missing]

\* main() groups the rows, summarizes each model, tallies the pairs and
\* saves the summary
Summarize ==
    /\ report_pc = "load"
    /\ report_next > Len(ExpectedPairs)
    /\ summary' = Some(Summary(rows, Pairwise(rows)))
    /\ report_pc' = "markdown"
    /\ UNCHANGED <<report_next, rows, missing, headline, insight_counts>>
    /\ UNCHANGED <<pairVars, canonical_snapshot, runVars>>
    /\ UNCHANGED agentVars
    /\ UNCHANGED streamVars
    /\ UNCHANGED groupVars

\* the "Headline" lines of build_markdown
Headline(sm) ==
    [expected           |-> sm.expected_pairs_per_framework,
     scratch_valid      |-> sm.overall.scratch_valid_verified,
     scratch_verified   |-> sm.overall.scratch_verified,
     strands_valid      |-> sm.overall.strands_valid_verified,
     strands_verified   |-> sm.overall.strands_verified,
     scratch_unverified |-> sm.expected_pairs_per_framework - sm.overall.scratch_verified,
     strands_unverified |-> sm.expected_pairs_per_framework - sm.overall.strands_verified,
     missing_artifacts  |-> Len(sm.missing),
     scratch_wins       |-> sm.overall.scratch_wins,
     strands_wins       |-> sm.overall.strands_wins,
     ties               |-> sm.overall.ties]

\* out_md.write_text(build_markdown(summary, out_json))
BuildMarkdown ==
    /\ report_pc = "markdown"
    /\ headline' = Some(Headline(summary[1]))
    /\ report_pc' = "insights"
    /\ UNCHANGED <<report_next, rows, missing, summary, insight_counts>>
    /\ UNCHANGED <<pairVars, canonical_snapshot, runVars>>
    /\ UNCHANGED agentVars
    /\ UNCHANGED streamVars
    /\ UNCHANGED groupVars

\* generate_model_insights_block.py reads the saved summary:
\* pairwise_counts(comparison.get("pairwise", []))
GenerateInsights ==
    /\ report_pc = "insights"
    /\ insight_counts' = Some(pairwise_counts(summary[1].pairwise))
    /\ report_pc' = "done"
    /\ UNCHANGED <<report_next, rows, missing, summary, headline>>
    /\ UNCHANGED <<pairVars, canonical_snapshot, runVars>>
    /\ UNCHANGED agentVars
    /\ UNCHANGED streamVars
    /\ UNCHANGED groupVars

ReportNext ==
    \/ LoadPair
    \/ Summarize
    \/ BuildMarkdown
    \/ GenerateInsights

ReportSpec == ReportInit /\ [][ReportNext]_vars

(***************************************************************************)
(* json.loads on the texts of a model response. A text is a sequence of    *)
(* lexemes: one-character strings, quoted string literals and words.       *)
(***************************************************************************)
\* the quoted string literals of the texts
StringLiterals ==
    {"\"tool_name\"", "\"tool_arguments\"", "\"http_request\"", "\"lookup\"",
     "\"url\"", "\"u\"", "\"\"", "\"tool_name tool_arguments\""}

\* the str a string literal denotes
Spelled(lit) ==
    CASE lit = "\"tool_name\"" -> "tool_name"
      [] lit = "\"tool_arguments\"" -> "tool_arguments"
      [] lit = "\"http_request\"" -> "http_request"
      [] lit = "\"lookup\"" -> "lookup"
      [] lit = "\"url\"" -> "url"
      [] lit = "\"u\"" -> "u"
      [] lit = "\"\"" -> ""
      [] lit = "\"tool_name tool_arguments\"" -> "tool_name tool_arguments"

\* word in s, on the strs the texts spell
StrContains(s, word) ==
    \/ s = word
    \/ s = "tool_name tool_arguments" /\ word \in {"tool_name", "tool_arguments"}

\* word in text, on a text
TextContains(text, word) ==
    \E i \in DOMAIN text :
        StrContains(IF text[i] \in StringLiterals THEN Spelled(text[i]) ELSE text[i],
                    word)

Structural == {"{", "}", "[", "]", ":", ","}

\* a lexeme that is part of a number or of a literal name
IsBare(s, i) ==
    i >= 1 /\ i <= Len(s) /\ ~IsSpace(s, i) /\ s[i] \notin Structural
        /\ s[i] \notin StringLiterals

\* whitespace the JSON grammar allows: not between two bare lexemes
IsJsonSpace(s, i) ==
    /\ IsSpace(s, i)
    /\ ~(/\ \E j \in 1 .. i - 1 :
               IsBare(s, j) /\ \A k \in j + 1 .. i - 1 : IsSpace(s, k)
         /\ \E j \in i + 1 .. Len(s) :
               IsBare(s, j) /\ \A k \in i + 1 .. j - 1 : IsSpace(s, k))

RECURSIVE JsonLexemes(_, _)
\* the text from i on without the whitespace the grammar allows
JsonLexemes(s, i) ==
    IF i > Len(s) THEN <<>>
    ELSE (IF IsJsonSpace(s, i) THEN <<>> ELSE <<s[i]>>) \o JsonLexemes(s, i + 1)

\* the number of containers open before position i
JsonDepth(s, i) ==
    Cardinality({j \in 1 .. i - 1 : s[j] \in {"{", "["}})
        - Cardinality({j \in 1 .. i - 1 : s[j] \in {"}", "]"}})

\* the text between the commas that are in no container, piece by piece
JsonPieces(s) ==
    LET cuts == Ascending({0, Len(s) + 1}
                    \cup {i \in DOMAIN s : s[i] = "," /\ JsonDepth(s, i) = 0})
    IN  [k \in 1 .. Len(cuts) - 1 |-> SubSeq(s, cuts[k] + 1, cuts[k + 1] - 1)]

JSONDecodeError == [kind |-> "JSONDecodeError"]

\* a number, a string or a literal name
JsonScalar(s) ==
    IF Len(s) = 1 /\ s[1] \in StringLiterals
    THEN [kind |-> "str", str |-> Spelled(s[1])]
    ELSE IF Len(s) = 1 /\ s[1] \in {"null", "true", "false"}
    THEN [kind |-> s[1]]
    ELSE IF /\ TokenEnd(s, 1) = Len(s) + 1
            /\ ~(IsChar(s, SkipSign(s, 1, TRUE), "0")
                    /\ IsDigit(s, SkipSign(s, 1, TRUE) + 1))
    THEN [kind |-> "number"]
    ELSE JSONDecodeError

\* s opens a container with opener and closes it with closer as its last lexeme
IsContainer(s, opener, closer) ==
    /\ Len(s) >= 2
    /\ s[1] = opener
    /\ s[Len(s)] = closer
    /\ \A i \in 2 .. Len(s) : JsonDepth(s, i) >= 1
    /\ JsonDepth(s, Len(s) + 1) = 0

RECURSIVE JsonValue(_)
\* the value the lexemes s denote
JsonValue(s) ==
    IF s # <<>> /\ s[1] \in {"{", "["}
    THEN IF ~IsContainer(s, s[1], IF s[1] = "{" THEN "}" ELSE "]")
         THEN JSONDecodeError
         ELSE LET ms == IF Len(s) = 2 THEN <<>>
                        ELSE JsonPieces(SubSeq(s, 2, Len(s) - 1))
                  member(m) == /\ Len(m) >= 3
                               /\ m[1] \in StringLiterals
                               /\ m[2] = ":"
                               /\ JsonValue(SubSeq(m, 3, Len(m))) # JSONDecodeError
                  last(key) == CHOOSE k \in DOMAIN ms :
                                  /\ Spelled(ms[k][1]) = key
                                  /\ \A j \in DOMAIN ms :
                                        Spelled(ms[j][1]) = key => j <= k
              IN  IF s[1] = "{"
                  THEN IF \E k \in DOMAIN ms : ~member(ms[k])
                       THEN JSONDecodeError
                       ELSE [kind  |-> "dict",
                             items |-> [key \in {Spelled(ms[k][1]) : k \in DOMAIN ms} |->
                                          JsonValue(SubSeq(ms[last(key)], 3,
                                                           Len(ms[last(key)])))]]
                  ELSE IF \E k \in DOMAIN ms : JsonValue(ms[k]) = JSONDecodeError
                       THEN JSONDecodeError
                       ELSE [kind  |-> "list",
                             items |-> [k \in DOMAIN ms |-> JsonValue(ms[k])]]
    ELSE JsonScalar(s)

\* json.loads(text)
JsonLoads(text) == JsonValue(JsonLexemes(text, 1))

(***************************************************************************)
(* FoundryAgent: the tool loop of the scratch framework.                   *)
(***************************************************************************)
\* a run requests at most MaxRounds completions
MaxRounds == 2

\* self.tools of the agent create_agent builds
RegisteredTools == {"http_request"}

\* what a tool function returns as str(function_response)
ToolOutputs ==
    {<<"Status", ":", " ", "2", "0", "0">>,
     <<"URL", ":", " ", "https://", "a", "\n", "timestamp", ":", " ",
       "1", "7", "0", "0", "0", "0", "0", "0", "0", "0">>}

\* a tool function returns a text or raises (None)
ToolOutcomes == {Some(o) : o \in ToolOutputs} \cup {None}

\* the JSON texts of tool arguments
UrlArguments == <<"{", "\"url\"", ":", "\"u\"", "}">>

ToolCall(id, name, arguments) ==
    [id |-> id, function |-> [name |-> name, arguments |-> arguments]]

\* a DeepSeek-style request in the content of a response
CustomRequest(name, arguments) ==
    <<"{", "\"tool_name\"", ":", " ", name, ",", " ", "\"tool_arguments\"", ":", " ">>
        \o arguments \o <<"}">>

AssistantMessage(content, tool_calls) ==
    [role |-> "assistant", content |-> content, tool_calls |-> tool_calls]

\* completion.choices[0].message: what the model can answer
ModelResponses ==
    {AssistantMessage(c, <<>>) :
        c \in {None,
               Some(<<>>),
               Some(<<"2", "2", " ", "C">>),
               Some(<<"4", "2">>),
               Some(<<"{", "}">>),
               Some(<<"Calling", " ", "{", "\"tool_name\"", ":", "\"http_request\"", ",",
                      "\"tool_arguments\"", ":", "{", "}", "}">>),
               Some(<<"[", "\"tool_name\"", ",", "\"tool_arguments\"", "]">>),
               Some(CustomRequest("\"http_request\"", UrlArguments)),
               Some(CustomRequest("\"lookup\"", UrlArguments)),
               Some(CustomRequest("\"\"", <<"{", "}">>)),
               Some(CustomRequest("\"http_request\"", <<"1">>))}}
    \cup
    {AssistantMessage(c, calls) :
        c \in {None, Some(<<"2", "2", " ", "C">>)},
        calls \in {<<ToolCall("a", "http_request", UrlArguments)>>,
                   <<ToolCall("a", "lookup", UrlArguments)>>,
                   <<ToolCall("a", "", UrlArguments)>>,
                   <<ToolCall("a", "http_request", <<"{">>)>>,
                   <<ToolCall("a", "lookup", UrlArguments),
                     ToolCall("b", "http_request", UrlArguments)>>,
                   <<ToolCall("a", "http_request", UrlArguments),
                     ToolCall("b", "http_request", UrlArguments)>>}}

\* bool(x) of an optional text
Truthy(content) == content # None /\ content[1] # <<>>

\* "tool_name" in v and "tool_arguments" in v, on a value json.loads returned;
\* raises TypeError (None) on a value that is no container
HasToolKeys(v) ==
    CASE v.kind = "dict" ->
            Some({"tool_name", "tool_arguments"} \subseteq DOMAIN v.items)
      [] v.kind = "list" ->
            Some(\A w \in {"tool_name", "tool_arguments"} :
                    \E k \in DOMAIN v.items : v.items[k] = [kind |-> "str", str |-> w])
      [] v.kind = "str" ->
            Some(\A w \in {"tool_name", "tool_arguments"} : StrContains(v.str, w))
      [] OTHER -> None

\* what _is_deepseek_custom_tool_call returns (info: the value or None), or
\* that it raised
_is_deepseek_custom_tool_call(content) ==
    LET v == JsonLoads(content)
    IN  IF v = JSONDecodeError THEN [raised |-> FALSE, info |-> None]
        ELSE IF HasToolKeys(v) = None THEN [raised |-> TRUE, info |-> None]
        ELSE [raised |-> FALSE,
              info   |-> IF HasToolKeys(v)[1] THEN Some(v) ELSE None]

\* f"Tool '{function_name}' not found."
NotFound(function_name) == <<"Tool '", function_name, "' not found.">>

\* mutant: a call of an unregistered tool raises
ToolCallMessage_abort(tool_call, outcome) ==
    IF tool_call.function.name \in RegisteredTools
    THEN IF JsonLoads(tool_call.function.arguments).kind # "dict" \/ outcome = None
         THEN None
         ELSE Some([tool_call_id |-> tool_call.id,
                    role         |-> "tool",
                    name         |-> tool_call.function.name,
                    content      |-> outcome])
    ELSE None

\* the message appended for a standard tool call, None when the call raises
\* (json.loads of the arguments, the ** of a non-mapping, the tool function)
ToolCallMessage(tool_call, outcome) ==
    IF tool_call.function.name \in RegisteredTools
    THEN IF JsonLoads(tool_call.function.arguments).kind # "dict" \/ outcome = None
         THEN None
         ELSE Some([tool_call_id |-> tool_call.id,
                    role         |-> "tool",
                    name         |-> tool_call.function.name,
                    content      |-> outcome])
    ELSE Some([tool_call_id |-> tool_call.id,
               role         |-> "tool",
               name         |-> tool_call.function.name,
               content      |-> Some(NotFound(tool_call.function.name))])

\* the message appended for a DeepSeek-style request, None when it raises
\* (a subscript of a list or a str, an unhashable name, the ** of a
\* non-mapping, the tool function)
CustomCallMessage(info, outcome) ==
    IF info.kind # "dict" \/ info.items["tool_name"].kind # "str"
    THEN None
    ELSE IF info.items["tool_name"].str \in RegisteredTools
    THEN IF info.items["tool_arguments"].kind # "dict" \/ outcome = None
         THEN None
         ELSE Some([role    |-> "tool",
                    name    |-> info.items["tool_name"].str,
                    content |-> outcome])
    ELSE Some([role    |-> "tool",
               name    |-> info.items["tool_name"].str,
               content |-> Some(NotFound(info.items["tool_name"].str))])

\* the system message of __init__ with the instruction of create_agent
SystemMessage ==
    [role |-> "system", content |-> Some(<<"You are a helpful assistant">>)]

\* the prompts the agent is run with
AgentPrompts ==
    {[name |-> "warm", type |-> "weather", text |-> <<"q_warm">>],
     [name |-> "chat", type |-> "chat", text |-> <<"q_chat">>]}

\* the snapshot of the run the agent is part of
AgentSnapshot ==
    [version |-> "v",
     prompts |-> [n \in {"warm", "chat"} |->
                    IF n = "warm"
                    THEN [type |-> "weather",
                          canonical |-> [temp_c |-> RInt(22), provider |-> "openweather"]]
                    ELSE [type |-> "chat", canonical |-> <<>>]]]

(***************************************************************************)
(* Tool-use detection and data hints, read from the saved transcript.      *)
(***************************************************************************)
\* the tool names of the transcripts in the order of str comparison
NamesInOrder == <<"", "http_request", "lookup">>

\* sorted(set(tool_names))
SortedNames(names) ==
    LET ranks == Ascending({k \in DOMAIN NamesInOrder : NamesInOrder[k] \in names})
    IN  [k \in DOMAIN ranks |-> NamesInOrder[ranks[k]]]

\* the names detect_tool_use_scratch appends for the message m
ToolNamesOf(m) ==
    IF m.role = "tool"
    THEN {m.name} \ {""}
    ELSE IF m.role = "assistant"
    THEN {m.tool_calls[k].function.name : k \in DOMAIN m.tool_calls} \ {""}
    ELSE {}

\* the message m alone sets tool_used
ShowsToolUse(m) ==
    \/ m.role = "tool"
    \/ /\ m.role = "assistant"
       /\ \/ m.tool_calls # <<>>
          \/ /\ m.content # None
             /\ TextContains(m.content[1], "tool_name")
             /\ TextContains(m.content[1], "tool_arguments")

\* mutant: tool_used is set by a recorded tool name only
detect_tool_use_scratch_named(ms) ==
    [tool_used  |-> SortedNames(UNION {ToolNamesOf(ms[i]) : i \in DOMAIN ms}) # <<>>,
     tool_names |-> SortedNames(UNION {ToolNamesOf(ms[i]) : i \in DOMAIN ms})]

detect_tool_use_scratch(ms) ==
    [tool_used  |-> \E i \in DOMAIN ms : ShowsToolUse(ms[i]),
     tool_names |-> SortedNames(UNION {ToolNamesOf(ms[i]) : i \in DOMAIN ms})]

\* \w, on a lexeme
IsWordChar(s, i) ==
    /\ i >= 1
    /\ i <= Len(s)
    /\ ~IsSpace(s, i)
    /\ s[i] \notin Structural \cup StringLiterals
                   \cup {"-", ".", "=", "/", "\"", "'", "Tool '", "' not found."}

\* \b before position i
IsBoundary(s, i) == IsWordChar(s, i - 1) # IsWordChar(s, i)

\* \d{n} at i
IsDigitRun(s, i, n) == \A k \in i .. i + n - 1 : IsDigit(s, k)

\* \d{4}-\d{2}-\d{2} at i
IsDate(s, i) ==
    /\ IsDigitRun(s, i, 4)
    /\ IsChar(s, i + 4, "-")
    /\ IsDigitRun(s, i + 5, 2)
    /\ IsChar(s, i + 7, "-")
    /\ IsDigitRun(s, i + 8, 2)

\* the field names of the time_label pattern
TimeLabels == {"observation_time", "localObsDateTime", "time_last_updated", "timestamp"}

\* [^\n",}]
IsLabelChar(s, i) ==
    i >= 1 /\ i <= Len(s) /\ s[i] \notin {"\n", "\"", ",", "}"} \cup StringLiterals

\* the ways [:=]?\s*"? can match from j and leave a character for the
\* group: <<separator taken, whitespace taken, quote taken>>
LabelPrefixes(s, j) ==
    {p \in {0, 1} \X (0 .. Len(s)) \X {0, 1} :
        /\ p[1] = 1 => (IsChar(s, j, ":") \/ IsChar(s, j, "="))
        /\ \A k \in j + p[1] .. j + p[1] + p[2] - 1 : IsSpace(s, k)
        /\ p[3] = 1 => IsChar(s, j + p[1] + p[2], "\"")
        /\ IsLabelChar(s, j + p[1] + p[2] + p[3])}

\* where the group starts: each quantifier takes as much as it can, the
\* earlier one first; 0 when the pattern does not match
LabelGroupStart(s, j) ==
    IF LabelPrefixes(s, j) = {} THEN 0
    ELSE LET best == CHOOSE p \in LabelPrefixes(s, j) :
                        \A q \in LabelPrefixes(s, j) :
                            \/ p[1] > q[1]
                            \/ p[1] = q[1] /\ p[2] > q[2]
                            \/ p[1] = q[1] /\ p[2] = q[2] /\ p[3] >= q[3]
         IN  j + best[1] + best[2] + best[3]

\* [^\n",}]* from i, greedy
LabelEnd(s, i) ==
    CHOOSE j \in i .. Len(s) + 1 :
        /\ \A k \in i .. j - 1 : IsLabelChar(s, k)
        /\ ~IsLabelChar(s, j)

\* \S+ from i
NonSpaceEnd(s, i) ==
    CHOOSE j \in i .. Len(s) + 1 :
        /\ \A k \in i .. j - 1 : ~IsSpace(s, k)
        /\ j > Len(s) \/ IsSpace(s, j)

\* the lexemes that start with http:// or https://
UrlHeads == {"https://", "http://"}

\* the match of one of the hint patterns at i: where the returned text
\* starts and where the match ends, end = 0 when there is no match
HintMatch(kind, s, i) ==
    CASE kind = "iso_datetime" ->
            IF IsDate(s, i) /\ IsChar(s, i + 10, "T") /\ IsDigitRun(s, i + 11, 2)
               /\ IsChar(s, i + 13, ":") /\ IsDigitRun(s, i + 14, 2)
            THEN LET e == IF IsChar(s, i + 16, ":") /\ IsDigitRun(s, i + 17, 2)
                          THEN i + 19 ELSE i + 16
                 IN  [from |-> i, end |-> IF IsChar(s, e, "Z") THEN e + 1 ELSE e]
            ELSE [from |-> i, end |-> 0]
      [] kind = "date" ->
            [from |-> i,
             end  |-> IF IsBoundary(s, i) /\ IsDate(s, i) /\ IsBoundary(s, i + 10)
                      THEN i + 10 ELSE 0]
      [] kind = "epoch" ->
            [from |-> i,
             end  |-> IF IsBoundary(s, i) /\ IsChar(s, i, "1")
                         /\ IsDigitRun(s, i + 1, 9) /\ IsBoundary(s, i + 10)
                      THEN i + 10 ELSE 0]
      [] kind = "time_field" ->
            IF IsBoundary(s, i) /\ i <= Len(s) /\ s[i] \in TimeLabels
               /\ IsBoundary(s, i + 1) /\ LabelGroupStart(s, i + 1) > 0
            THEN [from |-> LabelGroupStart(s, i + 1),
                  end  |-> LabelEnd(s, LabelGroupStart(s, i + 1))]
            ELSE [from |-> i, end |-> 0]
      [] kind = "url" ->
            IF IsChar(s, i, "URL") /\ IsChar(s, i + 1, ":")
               /\ SpacesEnd(s, i + 2) <= Len(s)
               /\ s[SpacesEnd(s, i + 2)] \in UrlHeads
               /\ ~IsSpace(s, SpacesEnd(s, i + 2) + 1)
               /\ SpacesEnd(s, i + 2) + 1 <= Len(s)
            THEN [from |-> SpacesEnd(s, i + 2),
                  end  |-> NonSpaceEnd(s, SpacesEnd(s, i + 2))]
            ELSE [from |-> i, end |-> 0]

RECURSIVE FindHints(_, _, _)
\* set(re.findall(pattern, s)) from position i on
FindHints(kind, s, i) ==
    IF i > Len(s) THEN {}
    ELSE IF HintMatch(kind, s, i).end = 0 THEN FindHints(kind, s, i + 1)
    ELSE {SubSeq(s, HintMatch(kind, s, i).from, HintMatch(kind, s, i).end - 1)}
            \cup FindHints(kind, s, HintMatch(kind, s, i).end)

\* the sorted lists of the dict are held as the sets they list
_extract_hints_from_blob(blob) ==
    [iso_datetime_hints |-> FindHints("iso_datetime", blob, 1),
     date_hints         |-> FindHints("date", blob, 1),
     time_field_hints   |-> FindHints("time_field", blob, 1),
     epoch_hints        |-> FindHints("epoch", blob, 1)]

RECURSIVE JoinLines(_)
\* "\n".join(blobs)
JoinLines(blobs) ==
    IF blobs = <<>> THEN <<>>
    ELSE IF Len(blobs) = 1 THEN blobs[1]
    ELSE blobs[1] \o <<"\n">> \o JoinLines(Tail(blobs))

\* the contents of the tool messages of ms, in order
ToolBlobs(ms) ==
    LET at == Ascending({i \in DOMAIN ms : ms[i].role = "tool"})
    IN  [k \in DOMAIN at |-> ms[at[k]].content[1]]

extract_data_hints_scratch(ms) ==
    [iso_datetime_hints |-> _extract_hints_from_blob(JoinLines(ToolBlobs(ms))).iso_datetime_hints,
     date_hints         |-> _extract_hints_from_blob(JoinLines(ToolBlobs(ms))).date_hints,
     time_field_hints   |-> _extract_hints_from_blob(JoinLines(ToolBlobs(ms))).time_field_hints,
     epoch_hints        |-> _extract_hints_from_blob(JoinLines(ToolBlobs(ms))).epoch_hints,
     tool_urls          |-> UNION {FindHints("url", ToolBlobs(ms)[k], 1) :
                                      k \in DOMAIN ToolBlobs(ms)}]

(***************************************************************************)
(* One pair of the scratch run: agent.run, then the evaluation of the      *)
(* transcript it left.                                                     *)
(***************************************************************************)
\* the validators that read the final text
TextTypes == {"weather", "temperature", "location", "exchange_rate", "iss"}

\* mutant: a pair whose tool outputs carry no epoch is left unverified
EvaluatePair_hinted(ms, prompt, returned, snapshot, now) ==
    IF returned = None /\ TypeOf(prompt) \in TextTypes
    THEN None
    ELSE LET verdict == IF extract_data_hints_scratch(ms).epoch_hints = {}
                        THEN [valid |-> None, reason |-> "validation_not_implemented"]
                        ELSE validate_result(prompt, IF returned = None THEN <<>>
                                                     ELSE returned[1],
                                             snapshot, now, None)
         IN  Some([canonical      |-> GetOr(GetOr(snapshot.prompts, prompt.name, <<>>),
                                           "canonical", <<>>),
                   tool_used      |-> detect_tool_use_scratch(ms).tool_used,
                   tool_names     |-> detect_tool_use_scratch(ms).tool_names,
                   provenance     |-> classify_provenance(
                                         detect_tool_use_scratch(ms).tool_used, verdict),
                   eval_time_unix |-> now,
                   data_hints     |-> extract_data_hints_scratch(ms),
                   validation     |-> verdict])

\* detection, validation, classification and hints of one pair, as the
\* sidecar holds them; None when validate_result raises on a final text
\* that is None
EvaluatePair(ms, prompt, returned, snapshot, now) ==
    IF returned = None /\ TypeOf(prompt) \in TextTypes
    THEN None
    ELSE LET verdict == validate_result(prompt, IF returned = None THEN <<>>
                                                ELSE returned[1],
                                        snapshot, now, None)
         IN  Some([canonical      |-> GetOr(GetOr(snapshot.prompts, prompt.name, <<>>),
                                           "canonical", <<>>),
                   tool_used      |-> detect_tool_use_scratch(ms).tool_used,
                   tool_names     |-> detect_tool_use_scratch(ms).tool_names,
                   provenance     |-> classify_provenance(
                                         detect_tool_use_scratch(ms).tool_used, verdict),
                   eval_time_unix |-> now,
                   data_hints     |-> extract_data_hints_scratch(ms),
                   validation     |-> verdict])

\* the messages of ms that hold what a tool function returned
ToolOutputAt(ms) ==
    {i \in DOMAIN ms : ms[i].role = "tool" /\ ms[i].name \in RegisteredTools}

\* the transcript ms with other tool outputs
WithToolOutputs(ms, outs) ==
    [i \in DOMAIN ms |->
        IF i \in ToolOutputAt(ms)
        THEN [ms[i] EXCEPT !.content = Some(outs[i])]
        ELSE ms[i]]

AgentInit ==
    /\ pc = "next_pair"
    /\ prompt_obj \in AgentPrompts
    /\ canonical_snapshot = AgentSnapshot
    /\ final_text = None
    /\ tool_used = FALSE
    /\ eval_time_unix = 0
    /\ sample_1 = None
    /\ iss_fetches = 0
    /\ iss_locals = None
    /\ validation = None
    /\ provenance = None
    /\ sidecar = None
    /\ run_pc = "idle"
    /\ environ = None
    /\ manifest = <<>>
    /\ snapshot_dict = None
    /\ build_next = 1
    /\ fetch_log = <<>>
    /\ builds = 0
    /\ pair = <<1, 1>>
    /\ attempts = <<>>
    /\ errors_logged = 0
    /\ report_pc = "idle"
    /\ report_next = 1
    /\ rows = <<>>
    /\ missing = <<>>
    /\ summary = None
    /\ headline = None
    /\ insight_counts = None
    /\ agent_pc = "created"
    /\ messages = <<SystemMessage>>
    /\ requests = <<>>
    /\ call_next = 1
    /\ response = None
    /\ evaluated = None
    /\ twin = None
    /\ stream_pc = "idle"
    /\ tool_call_mode = "auto"
    /\ events = <<>>
    /\ data_type = None
    /\ finish_reason = None
    /\ stream_text = <<>>
    /\ tool_deltas = <<>>
    /\ chunks_seen = 0
    /\ disk = EmptyDisk
    /\ canonical_file = None
    /\ built = <<>>
    /\ strands_run_id = None
    /\ inv_pc = "idle"
    /\ runner = "none"
    /\ run_id = None
    /\ started = 0
    /\ prompt_next = 1

\* run: the user message is appended and _get_agent_response is called
Run ==
    /\ agent_pc = "created"
    /\ messages' = Append(messages, [role |-> "user", content |-> Some(prompt_obj.text)])
    /\ agent_pc' = "request"
    /\ UNCHANGED <<requests, call_next, response, evaluated, twin>>
    /\ UNCHANGED <<pairVars, canonical_snapshot, runVars, reportVars>>
    /\ UNCHANGED streamVars
    /\ UNCHANGED groupVars

\* where _get_agent_response goes after appending the response r
Branch(r) ==
    IF r.tool_calls # <<>> THEN "tool_calls"
    ELSE IF ~Truthy(r.content) THEN "returned"
    ELSE IF _is_deepseek_custom_tool_call(r.content[1]).raised THEN "raised"
    ELSE IF _is_deepseek_custom_tool_call(r.content[1]).info # None THEN "custom_call"
    ELSE "returned"

\* _get_agent_response: the completion request, the response appended and
\* the branch taken on it; the request itself can raise
GetAgentResponse ==
    /\ agent_pc = "request"
    /\ Len(requests) < MaxRounds
    /\ requests' = Append(requests, Len(messages))
    /\ \/ /\ agent_pc' = "raised"
          /\ UNCHANGED <<messages, response>>
       \/ \E r \in ModelResponses :
            /\ messages' = Append(messages, r)
            /\ agent_pc' = Branch(r)
            /\ response' = IF Branch(r) = "returned" THEN Some(r.content) ELSE response
    /\ call_next' = 1
    /\ UNCHANGED <<evaluated, twin>>
    /\ UNCHANGED <<pairVars, canonical_snapshot, runVars, reportVars>>
    /\ UNCHANGED streamVars
    /\ UNCHANGED groupVars

\* response_message.tool_calls of the response being handled
CurrentCalls == messages[Len(messages) - call_next + 1].tool_calls

\* one iteration of the loop over the standard tool calls; after the last
\* one _get_agent_response is called again
HandleToolCall ==
    /\ agent_pc = "tool_calls"
    /\ \E outcome \in ToolOutcomes :
        IF ToolCallMessage(CurrentCalls[call_next], outcome) = None
        THEN /\ agent_pc' = "raised"
             /\ UNCHANGED <<messages, call_next>>
        ELSE /\ messages' = Append(messages,
                              ToolCallMessage(CurrentCalls[call_next], outcome)[1])
             /\ agent_pc' = IF call_next = Len(CurrentCalls)
                            THEN "request" ELSE "tool_calls"
             /\ call_next' = IF call_next = Len(CurrentCalls) THEN 1 ELSE call_next + 1
    /\ UNCHANGED <<requests, response, evaluated, twin>>
    /\ UNCHANGED <<pairVars, canonical_snapshot, runVars, reportVars>>
    /\ UNCHANGED streamVars
    /\ UNCHANGED groupVars

\* the DeepSeek-style request of the last response is executed and
\* _get_agent_response is called again
HandleCustomCall ==
    /\ agent_pc = "custom_call"
    /\ \E outcome \in ToolOutcomes :
        LET info == _is_deepseek_custom_tool_call(
                        messages[Len(messages)].content[1]).info[1]
        IN  IF CustomCallMessage(info, outcome) = None
            THEN /\ agent_pc' = "raised"
                 /\ UNCHANGED messages
            ELSE /\ messages' = Append(messages, CustomCallMessage(info, outcome)[1])
                 /\ agent_pc' = "request"
    /\ UNCHANGED <<requests, call_next, response, evaluated, twin>>
    /\ UNCHANGED <<pairVars, canonical_snapshot, runVars, reportVars>>
    /\ UNCHANGED streamVars
    /\ UNCHANGED groupVars

\* the body of the pair after agent.run: the transcript is evaluated; the
\* same is done for a transcript that differs in its tool outputs only
EvaluateTranscript ==
    /\ agent_pc = "returned"
    /\ evaluated' = EvaluatePair(messages, prompt_obj, response[1],
                                 canonical_snapshot, RunClock)
    /\ \E outs \in [ToolOutputAt(messages) -> ToolOutputs] :
          twin' = EvaluatePair(WithToolOutputs(messages, outs), prompt_obj,
                               response[1], canonical_snapshot, RunClock)
    /\ agent_pc' = IF evaluated' = None THEN "logged" ELSE "evaluated"
    /\ UNCHANGED <<messages, requests, call_next, response>>
    /\ UNCHANGED <<pairVars, canonical_snapshot, runVars, reportVars>>
    /\ UNCHANGED streamVars
    /\ UNCHANGED groupVars

AgentNext ==
    \/ Run
    \/ GetAgentResponse
    \/ HandleToolCall
    \/ HandleCustomCall
    \/ EvaluateTranscript

AgentSpec == AgentInit /\ [][AgentNext]_vars

(***************************************************************************)
(* FoundryCompletionsModel.stream: provider chunks in, Strands stream       *)
(* events out.                                                             *)
(***************************************************************************)
\* a provider stream has at most MaxChunks chunks before it ends
MaxChunks == 3

ToolCallModes == {"openai", "deepseek_json", "auto"}

\* one chunk of the provider's stream; choices = FALSE is a chunk without
\* choices, tool_calls are the deltas <<index, id, name, arguments>>
Chunk(reasoning_content, content, tool_calls, reason) ==
    [choices           |-> TRUE,
     reasoning_content |-> reasoning_content,
     content           |-> content,
     tool_calls        |-> tool_calls,
     finish_reason     |-> reason]

ToolDelta(index, id, name, arguments) ==
    [index |-> index, id |-> id, function |-> [name |-> name, arguments |-> arguments]]

\* the chunks the provider can send
StreamChunks ==
    {[choices |-> FALSE]}
    \cup {Chunk(Some(<<"h", "m">>), None, <<>>, None),
          Chunk(Some(<<"h", "m">>), Some(<<"2", "2", " ", "C">>), <<>>, None),
          Chunk(None, Some(<<"{", "\"tool_name\"", ":", "\"http_request\"", ",">>),
                <<>>, None),
          Chunk(None, Some(<<"\"tool_arguments\"", ":", "{", "}", "}">>), <<>>, None),
          Chunk(None, None, <<ToolDelta(0, Some("a"), Some("http_request"), None)>>, None),
          Chunk(None, None, <<ToolDelta(0, None, None, Some(UrlArguments)),
                              ToolDelta(1, Some("b"), Some("lookup"), Some(<<"{", "}">>))>>,
                None)}
    \cup {Chunk(None, c, <<>>, Some(reason)) :
            c \in {None, Some(<<"2", "2", " ", "C">>)},
            reason \in {"stop", "tool_calls", "length", "content_filter"}}

\* _format_chunk, without the payload of the deltas
_format_chunk(chunk_type, data, data_type_) ==
    CASE chunk_type = "message_start" -> [messageStart |-> [role |-> "assistant"]]
      [] chunk_type = "content_start" ->
            IF data_type_ = Some("tool")
            THEN [contentBlockStart |-> [start |-> [toolUse |-> data]]]
            ELSE [contentBlockStart |-> [start |-> <<>>]]
      [] chunk_type = "content_delta" ->
            IF data_type_ = Some("tool")
            THEN [contentBlockDelta |-> [delta |-> "toolUse"]]
            ELSE IF data_type_ = Some("reasoning_content")
            THEN [contentBlockDelta |-> [delta |-> "reasoningContent"]]
            ELSE [contentBlockDelta |-> [delta |-> "text"]]
      [] chunk_type = "content_stop" -> [contentBlockStop |-> <<>>]
      [] chunk_type = "message_stop" -> [messageStop |-> [stopReason |-> data]]
      [] chunk_type = "metadata" -> [metadata |-> data]

\* the candidate _parse_deepseek_tool_call makes of a text, or None
_parse_deepseek_tool_call(content) ==
    IF JsonLoads(content).kind # "dict" THEN None
    ELSE IF {"tool_name", "tool_arguments"} \subseteq DOMAIN JsonLoads(content).items
    THEN Some([name           |-> JsonLoads(content).items["tool_name"],
               arguments_json |-> JsonLoads(content).items["tool_arguments"]])
    ELSE None

_should_apply_deepseek_mode(mode, reason, text) ==
    IF mode = "deepseek_json" THEN TRUE
    ELSE IF mode = "openai" THEN FALSE
    ELSE IF reason \in {Some("tool_calls"), Some("stop"), Some("length"), None}
    THEN _parse_deepseek_tool_call(text) # None
    ELSE FALSE

\* the events of a content piece of the given type arriving while the
\* block of type open is open
PieceEvents(open, type) ==
    (IF open # Some(type)
     THEN (IF open # None THEN <<_format_chunk("content_stop", None, open)>> ELSE <<>>)
              \o <<_format_chunk("content_start", None, Some(type))>>
     ELSE <<>>)
        \o <<_format_chunk("content_delta", None, Some(type))>>

\* data_type after the reasoning part of the chunk
AfterReasoning(open, chunk) ==
    IF Truthy(chunk.reasoning_content) THEN Some("reasoning_content") ELSE open

\* data_type after the content part of the chunk
AfterContent(open, chunk) ==
    IF Truthy(chunk.content) THEN Some("text") ELSE AfterReasoning(open, chunk)

\* the events one iteration of the loop over the provider's events yields
ChunkEvents(open, chunk) ==
    (IF Truthy(chunk.reasoning_content)
     THEN PieceEvents(open, "reasoning_content") ELSE <<>>)
        \o (IF Truthy(chunk.content)
            THEN PieceEvents(AfterReasoning(open, chunk), "text") ELSE <<>>)
        \o (IF chunk.finish_reason # None /\ AfterContent(open, chunk) # None
            THEN <<_format_chunk("content_stop", None, AfterContent(open, chunk))>>
            ELSE <<>>)

RECURSIVE WithDeltas(_, _)
\* tool_calls.setdefault(tool_call.index, []).append(tool_call), for each
\* delta of the chunk; the dict is held as its items in insertion order
WithDeltas(calls, deltas) ==
    IF deltas = <<>> THEN calls
    ELSE WithDeltas(
            IF \E k \in DOMAIN calls : calls[k].index = Head(deltas).index
            THEN [k \in DOMAIN calls |->
                    IF calls[k].index = Head(deltas).index
                    THEN [calls[k] EXCEPT !.deltas = Append(@, Head(deltas))]
                    ELSE calls[k]]
            ELSE Append(calls, [index |-> Head(deltas).index, deltas |-> <<Head(deltas)>>]),
            Tail(deltas))

\* the events of one tool call: start, one delta per provider delta, stop
ToolCallEvents(deltas) ==
    <<_format_chunk("content_start",
                    [name |-> deltas[1].function.name, toolUseId |-> deltas[1].id],
                    Some("tool"))>>
        \o [k \in DOMAIN deltas |-> _format_chunk("content_delta", None, Some("tool"))]
        \o <<_format_chunk("content_stop", None, Some("tool"))>>

RECURSIVE AllToolCallEvents(_)
AllToolCallEvents(calls) ==
    IF calls = <<>> THEN <<>>
    ELSE ToolCallEvents(Head(calls).deltas) \o AllToolCallEvents(Tail(calls))

\* the stop reason of the branch that maps the provider's finish reason
StopReasonOf(reason) ==
    IF reason = Some("tool_calls") THEN "tool_use"
    ELSE IF reason = Some("length") THEN "max_tokens"
    ELSE "end_turn"

\* what stream yields after the loop over the provider's events, before
\* the metadata
ClosingEvents(mode, calls, text, reason) ==
    AllToolCallEvents(calls)
        \o (IF calls = <<>> /\ text # <<>> /\ _should_apply_deepseek_mode(mode, reason, text)
            THEN IF _parse_deepseek_tool_call(text) # None
                 THEN <<_format_chunk("content_start",
                                      [name      |-> _parse_deepseek_tool_call(text)[1].name,
                                       toolUseId |-> "deepseek-uuid"],
                                      Some("tool")),
                        _format_chunk("content_delta", None, Some("tool")),
                        _format_chunk("content_stop", None, Some("tool")),
                        _format_chunk("message_stop", "tool_use", None)>>
                 ELSE <<_format_chunk("message_stop",
                                      IF reason # None THEN reason[1] ELSE "end_turn",
                                      None)>>
            ELSE <<_format_chunk("message_stop", StopReasonOf(reason), None)>>)

StreamInit ==
    /\ pc = "next_pair"
    /\ prompt_obj = None
    /\ canonical_snapshot = None
    /\ final_text = None
    /\ tool_used = FALSE
    /\ eval_time_unix = 0
    /\ sample_1 = None
    /\ iss_fetches = 0
    /\ iss_locals = None
    /\ validation = None
    /\ provenance = None
    /\ sidecar = None
    /\ run_pc = "idle"
    /\ environ = None
    /\ manifest = <<>>
    /\ snapshot_dict = None
    /\ build_next = 1
    /\ fetch_log = <<>>
    /\ builds = 0
    /\ pair = <<1, 1>>
    /\ attempts = <<>>
    /\ errors_logged = 0
    /\ report_pc = "idle"
    /\ report_next = 1
    /\ rows = <<>>
    /\ missing = <<>>
    /\ summary = None
    /\ headline = None
    /\ insight_counts = None
    /\ agent_pc = "idle"
    /\ messages = <<>>
    /\ requests = <<>>
    /\ call_next = 1
    /\ response = None
    /\ evaluated = None
    /\ twin = None
    /\ stream_pc = "called"
    /\ tool_call_mode \in ToolCallModes
    /\ events = <<>>
    /\ data_type = None
    /\ finish_reason = None
    /\ stream_text = <<>>
    /\ tool_deltas = <<>>
    /\ chunks_seen = 0
    /\ disk = EmptyDisk
    /\ canonical_file = None
    /\ built = <<>>
    /\ strands_run_id = None
    /\ inv_pc = "idle"
    /\ runner = "none"
    /\ run_id = None
    /\ started = 0
    /\ prompt_next = 1

\* message_start is yielded, then the completion is requested, which can raise
StreamStart ==
    /\ stream_pc = "called"
    /\ events' = <<_format_chunk("message_start", None, None)>>
    /\ stream_pc' \in {"streaming", "raised"}
    /\ UNCHANGED <<tool_call_mode, data_type, finish_reason, stream_text,
                   tool_deltas, chunks_seen>>
    /\ UNCHANGED <<pairVars, canonical_snapshot, runVars, reportVars, agentVars>>
    /\ UNCHANGED groupVars

\* one iteration of the loop over the provider's events
NextChunk ==
    /\ stream_pc = "streaming"
    /\ chunks_seen < MaxChunks
    /\ chunks_seen' = chunks_seen + 1
    /\ \E chunk \in StreamChunks :
        IF ~chunk.choices
        THEN UNCHANGED <<stream_pc, events, data_type, finish_reason, stream_text,
                         tool_deltas>>
        ELSE /\ events' = events \o ChunkEvents(data_type, chunk)
             /\ data_type' = AfterContent(data_type, chunk)
             /\ stream_text' = IF Truthy(chunk.content)
                               THEN stream_text \o chunk.content[1] ELSE stream_text
             /\ tool_deltas' = WithDeltas(tool_deltas, chunk.tool_calls)
             /\ finish_reason' = chunk.finish_reason
             /\ stream_pc' = IF chunk.finish_reason # None THEN "closing" ELSE "streaming"
    /\ UNCHANGED tool_call_mode
    /\ UNCHANGED <<pairVars, canonical_snapshot, runVars, reportVars, agentVars>>
    /\ UNCHANGED groupVars

\* the provider's stream ends before any chunk carried a finish reason
StreamExhausted ==
    /\ stream_pc = "streaming"
    /\ stream_pc' = "closing"
    /\ UNCHANGED <<tool_call_mode, events, data_type, finish_reason, stream_text,
                   tool_deltas, chunks_seen>>
    /\ UNCHANGED <<pairVars, canonical_snapshot, runVars, reportVars, agentVars>>
    /\ UNCHANGED groupVars

\* after the loop: the tool calls, the DeepSeek fallback, message_stop, and
\* the metadata when the last event of the drained stream carries usage
StreamClose ==
    /\ stream_pc = "closing"
    /\ \E usage \in BOOLEAN :
        events' = events
                    \o ClosingEvents(tool_call_mode, tool_deltas, stream_text, finish_reason)
                    \o (IF usage THEN <<_format_chunk("metadata", "usage", None)>>
                        ELSE <<>>)
    /\ stream_pc' = "done"
    /\ UNCHANGED <<tool_call_mode, data_type, finish_reason, stream_text,
                   tool_deltas, chunks_seen>>
    /\ UNCHANGED <<pairVars, canonical_snapshot, runVars, reportVars, agentVars>>
    /\ UNCHANGED groupVars

StreamNext ==
    \/ StreamStart
    \/ NextChunk
    \/ StreamExhausted
    \/ StreamClose

StreamSpec == StreamInit /\ [][StreamNext]_vars

(***************************************************************************)
(* The files of one run group: the invocations of the two runners write    *)
(* them, compare_framework_runs reads them.                                *)
(***************************************************************************)
\* a run group sees at most MaxInvocations invocations of the runners
MaxInvocations == 2

\* --models of the runners and of the comparison
GroupModels == << <<"m", " ", "k", "/", "2">> >>

\* the names of the prompts of the prompt file
GroupPromptNames == <<"p1", "p2">>

\* the (model, prompt) pairs in the order of main()'s nested loops
GroupPairs ==
    [i \in 1 .. Len(GroupModels) * Len(GroupPromptNames) |->
        <<GroupModels[((i - 1) \div Len(GroupPromptNames)) + 1],
          GroupPromptNames[((i - 1) % Len(GroupPromptNames)) + 1]>>]

\* re.sub(r"(?u)[^-\w.]", "", model.replace(" ", "_"))
sanitize_model_folder(model) ==
    LET replaced == [i \in DOMAIN model |-> IF model[i] = " " THEN "_" ELSE model[i]]
        Kept(c)  == IsWordChar(<<c>>, 1) \/ c \in {"-", "."}
    IN  SelectSeq(replaced, Kept)

\* str.strip()
Strip(text) ==
    LET inked == {i \in DOMAIN text : ~IsSpace(text, i)}
    IN  IF inked = {} THEN <<>>
        ELSE SubSeq(text, CHOOSE i \in inked : \A j \in inked : i <= j,
                          CHOOSE i \in inked : \A j \in inked : j <= i)

\* sanitize_filename of the runners
sanitize_filename(text) == sanitize_model_folder(Strip(text))

\* a file of the run directory: <framework>/<folder>/<prompt>[_<run id>].json
\* (kind "result") or ..._validation.json (kind "validation"); a run id is
\* the number its eight and six digits spell
PathOf(fw, folder, prompt_name, rid, kind) == <<fw, folder, prompt_name, rid, kind>>

\* the run id extract_run_id reads from the name of a sidecar, or None
extract_run_id(path) == IF path[5] = "validation" THEN path[4] ELSE None

\* open(path, "w") and json.dump: the file is created or replaced
Written(d, path, content) ==
    [p \in DOMAIN d \cup {path} |-> IF p = path THEN content ELSE d[p]]

\* the snapshots build_canonical_snapshot can return to an invocation
GroupSnapshots ==
    {[prompts |-> [p1 |-> [canonical |-> [temp_c |-> 21]],
                   p2 |-> [canonical |-> [rate |-> 5]]]],
     [prompts |-> [p1 |-> [canonical |-> [temp_c |-> 22]]]]}

\* the transcript payload of a pair; run stands for run.started_at_utc
TranscriptOf(inv, fw, model, prompt_name) ==
    [run         |-> [framework |-> fw, started |-> inv],
     model       |-> model,
     prompt_name |-> prompt_name]

\* mutant: the sidecar holds no canonical entry
SidecarOf_without_entry(inv, fw, model, prompt_name, snapshot, verdict) ==
    [run         |-> [framework |-> fw, started |-> inv],
     model       |-> model,
     prompt_name |-> prompt_name,
     canonical   |-> <<>>,
     validation  |-> verdict]

\* the sidecar payload of a pair
SidecarOf(inv, fw, model, prompt_name, snapshot, verdict) ==
    [run         |-> [framework |-> fw, started |-> inv],
     model       |-> model,
     prompt_name |-> prompt_name,
     canonical   |-> GetOr(snapshot.prompts, prompt_name, <<>>),
     validation  |-> verdict]

\* the files of a pair the invocation writes: the scratch runner names them
\* by the prompt, the strands runner by the prompt and its run id
PairPath(fw, model, prompt_name, rid, kind) ==
    PathOf(fw, sanitize_filename(model), prompt_name,
           IF fw = "strands" THEN rid ELSE None, kind)

\* mutant: the transcript is not written
AfterAgent_unsaved(d, inv, fw, model, prompt_name, rid) == d

\* the run directory after agent.run returned for a pair
AfterAgent(d, inv, fw, model, prompt_name, rid) ==
    Written(d, PairPath(fw, model, prompt_name, rid, "result"),
            Some(TranscriptOf(inv, fw, model, prompt_name)))

\* the sidecars choose_strands_run_id reads: the *_validation.json files
\* of the folders of the requested models
StrandsSidecars(d, models) ==
    {p \in DOMAIN d :
        /\ p[1] = "strands"
        /\ \E i \in DOMAIN models : p[2] = sanitize_model_folder(models[i])
        /\ p[5] = "validation"}

\* run_map[run_id] of choose_strands_run_id
RunMap(d, models, prompt_names, rid) ==
    {<<d[p][1].model, d[p][1].prompt_name>> :
        p \in {q \in StrandsSidecars(d, models) :
                 /\ extract_run_id(q) = Some(rid)
                 /\ d[q] # None
                 /\ \E i \in DOMAIN models : d[q][1].model = models[i]
                 /\ \E i \in DOMAIN prompt_names : d[q][1].prompt_name = prompt_names[i]}}

\* the run ids that are keys of run_map
RunIdsOf(d, models, prompt_names) ==
    {rid \in {extract_run_id(p)[1] :
                p \in {q \in StrandsSidecars(d, models) : extract_run_id(q) # None}} :
        RunMap(d, models, prompt_names, rid) # {}}

\* (len(kv[1]), kv[0]) <= (len(kv[1]), kv[0]) of two run ids
RankedBelow(d, models, prompt_names, a, b) ==
    \/ Cardinality(RunMap(d, models, prompt_names, a))
          < Cardinality(RunMap(d, models, prompt_names, b))
    \/ /\ Cardinality(RunMap(d, models, prompt_names, a))
             = Cardinality(RunMap(d, models, prompt_names, b))
       /\ a <= b

\* mutant: the runs are ranked by their run id alone
choose_strands_run_id_latest(d, models, prompt_names) ==
    IF RunIdsOf(d, models, prompt_names) = {} THEN None
    ELSE Some(CHOOSE a \in RunIdsOf(d, models, prompt_names) :
                \A b \in RunIdsOf(d, models, prompt_names) : b <= a)

\* the run id choose_strands_run_id returns: ranked[-1], or None
choose_strands_run_id(d, models, prompt_names) ==
    IF RunIdsOf(d, models, prompt_names) = {} THEN None
    ELSE Some(CHOOSE a \in RunIdsOf(d, models, prompt_names) :
                \A b \in RunIdsOf(d, models, prompt_names) :
                    RankedBelow(d, models, prompt_names, b, a))

\* what load_record finds for a pair: file is the sidecar it loads or None,
\* raised tells that load_json raised on a file that is no JSON
RecordFiles(d, fw, model, prompt_name, rid) ==
    LET vf == PathOf(fw, sanitize_model_folder(model), prompt_name,
                     IF fw = "scratch" THEN None ELSE rid, "validation")
        rf == PathOf(fw, sanitize_model_folder(model), prompt_name,
                     IF fw = "scratch" THEN None ELSE rid, "result")
    IN  IF fw # "scratch" /\ rid = None THEN [raised |-> FALSE, file |-> None]
        ELSE IF vf \notin DOMAIN d \/ rf \notin DOMAIN d
        THEN [raised |-> FALSE, file |-> None]
        ELSE IF d[vf] = None \/ d[rf] = None THEN [raised |-> TRUE, file |-> None]
        ELSE [raised |-> FALSE, file |-> d[vf]]

\* the states a file slot of a listing can be in
SlotStates == {"absent", "both", "sidecar_only", "unreadable", "misnamed", "foreign"}

\* the strands file slots of a listing: a prompt and a run id
StrandsSlots == {<<GroupPromptNames[i], rid>> : i \in DOMAIN GroupPromptNames, rid \in 1 .. 2}

\* the other prompt of the prompt file
OtherPrompt(prompt_name) ==
    IF prompt_name = GroupPromptNames[1] THEN GroupPromptNames[2] ELSE GroupPromptNames[1]

\* the files of a strands slot in the given state, as <<path, content>>
SlotFiles(slot, state) ==
    LET model   == GroupModels[1]
        vf      == PathOf("strands", sanitize_model_folder(model), slot[1],
                          Some(slot[2]), "validation")
        rf      == PathOf("strands", sanitize_model_folder(model), slot[1],
                          Some(slot[2]), "result")
        verdict == [valid |-> Some(TRUE)]
        good    == SidecarOf(slot[2], "strands", model, slot[1],
                             CHOOSE s \in GroupSnapshots : TRUE, verdict)
        result  == Some(TranscriptOf(slot[2], "strands", model, slot[1]))
    IN  CASE state = "absent"       -> {}
          [] state = "both"         -> {<<vf, Some(good)>>, <<rf, result>>}
          [] state = "sidecar_only" -> {<<vf, Some(good)>>}
          [] state = "unreadable"   -> {<<vf, None>>, <<rf, result>>}
          [] state = "misnamed"     ->
                {<<vf, Some([good EXCEPT !.prompt_name = OtherPrompt(slot[1])])>>,
                 <<rf, result>>}
          [] state = "foreign"      ->
                {<<vf, Some([good EXCEPT !.model = <<"o">>])>>, <<rf, result>>}

\* the scratch files of the prompts in held, and a sidecar without a run id
\* in its name in the strands folder
FixedFiles(held) ==
    LET model == GroupModels[1]
    IN  UNION {{<<PathOf("scratch", sanitize_model_folder(model), prompt_name,
                         None, "validation"),
                  Some(SidecarOf(0, "scratch", model, prompt_name,
                                 CHOOSE s \in GroupSnapshots : TRUE,
                                 [valid |-> Some(FALSE), reason |-> "no_temperature_found"]))>>,
                <<PathOf("scratch", sanitize_model_folder(model), prompt_name,
                         None, "result"),
                  Some(TranscriptOf(0, "scratch", model, prompt_name))>>} :
              prompt_name \in held}
        \cup {<<PathOf("strands", sanitize_model_folder(model), GroupPromptNames[1],
                       None, "validation"),
                Some(SidecarOf(0, "strands", model, GroupPromptNames[1],
                               CHOOSE s \in GroupSnapshots : TRUE,
                               [valid |-> Some(TRUE)]))>>}

\* the run directory that holds the given files
DiskOf(files) ==
    [p \in {f[1] : f \in files} |-> (CHOOSE f \in files : f[1] = p)[2]]

\* the run directories the comparison can be started on
Listings ==
    {DiskOf(FixedFiles(held) \cup UNION {SlotFiles(slot, states[slot]) : slot \in StrandsSlots}) :
        held \in SUBSET {GroupPromptNames[i] : i \in DOMAIN GroupPromptNames},
        states \in [StrandsSlots -> SlotStates]}

GroupInit ==
    /\ pc = "next_pair"
    /\ prompt_obj = None
    /\ canonical_snapshot = None
    /\ final_text = None
    /\ tool_used = FALSE
    /\ eval_time_unix = 0
    /\ sample_1 = None
    /\ iss_fetches = 0
    /\ iss_locals = None
    /\ validation = None
    /\ provenance = None
    /\ sidecar = None
    /\ run_pc = "idle"
    /\ environ = None
    /\ manifest = <<>>
    /\ snapshot_dict = None
    /\ build_next = 1
    /\ fetch_log = <<>>
    /\ builds = 0
    /\ pair = <<1, 1>>
    /\ attempts = <<>>
    /\ errors_logged = 0
    /\ report_pc = "choose"
    /\ report_next = 1
    /\ rows = <<>>
    /\ missing = <<>>
    /\ summary = None
    /\ headline = None
    /\ insight_counts = None
    /\ agent_pc = "idle"
    /\ messages = <<>>
    /\ requests = <<>>
    /\ call_next = 1
    /\ response = None
    /\ evaluated = None
    /\ twin = None
    /\ stream_pc = "idle"
    /\ tool_call_mode = "auto"
    /\ events = <<>>
    /\ data_type = None
    /\ finish_reason = None
    /\ stream_text = <<>>
    /\ tool_deltas = <<>>
    /\ chunks_seen = 0
    /\ disk = EmptyDisk
    /\ canonical_file = None
    /\ built = <<>>
    /\ strands_run_id = None
    /\ inv_pc = "idle"
    /\ runner = "none"
    /\ run_id = None
    /\ started = 0
    /\ prompt_next = 1

ChooseInit ==
    /\ pc = "next_pair"
    /\ prompt_obj = None
    /\ canonical_snapshot = None
    /\ final_text = None
    /\ tool_used = FALSE
    /\ eval_time_unix = 0
    /\ sample_1 = None
    /\ iss_fetches = 0
    /\ iss_locals = None
    /\ validation = None
    /\ provenance = None
    /\ sidecar = None
    /\ run_pc = "idle"
    /\ environ = None
    /\ manifest = <<>>
    /\ snapshot_dict = None
    /\ build_next = 1
    /\ fetch_log = <<>>
    /\ builds = 0
    /\ pair = <<1, 1>>
    /\ attempts = <<>>
    /\ errors_logged = 0
    /\ report_pc = "choose"
    /\ report_next = 1
    /\ rows = <<>>
    /\ missing = <<>>
    /\ summary = None
    /\ headline = None
    /\ insight_counts = None
    /\ agent_pc = "idle"
    /\ messages = <<>>
    /\ requests = <<>>
    /\ call_next = 1
    /\ response = None
    /\ evaluated = None
    /\ twin = None
    /\ stream_pc = "idle"
    /\ tool_call_mode = "auto"
    /\ events = <<>>
    /\ data_type = None
    /\ finish_reason = None
    /\ stream_text = <<>>
    /\ tool_deltas = <<>>
    /\ chunks_seen = 0
    /\ disk \in Listings
    /\ canonical_file = None
    /\ built = <<>>
    /\ strands_run_id = None
    /\ inv_pc = "idle"
    /\ runner = "none"
    /\ run_id = None
    /\ started = 0
    /\ prompt_next = 1

\* run_evaluation is entered: the snapshot is built, which can raise, and
\* saved to canonical_<version>.json; the strands runner then takes its
\* run id from the clock
StartInvocation ==
    /\ report_pc = "choose"
    /\ inv_pc = "idle"
    /\ started < MaxInvocations
    /\ started' = started + 1
    /\ \E fw \in {"scratch", "strands"} :
        \/ /\ UNCHANGED <<canonical_snapshot, canonical_file, built, runner,
                          run_id, inv_pc>>
        \/ \E snapshot \in GroupSnapshots :
            /\ canonical_snapshot' = snapshot
            /\ canonical_file' = Some(snapshot)
            /\ built' = Append(built, [started |-> started', snapshot |-> snapshot])
            /\ runner' = fw
            /\ run_id' = IF fw = "strands" THEN Some(started') ELSE None
            /\ inv_pc' = "agent"
    /\ prompt_next' = 1
    /\ UNCHANGED <<disk, strands_run_id>>
    /\ UNCHANGED <<pairVars, runVars, reportVars, agentVars, streamVars>>

\* the loop of the invocation moves to the next pair, or the invocation ends
NextPairOf(next) ==
    /\ prompt_next' = next + 1
    /\ inv_pc' = IF next = Len(GroupPairs) THEN "idle" ELSE "agent"

\* the agent is run on the pair; when it returns the transcript is written,
\* when it raises the error is logged and the loop goes on
PairAgent ==
    /\ inv_pc = "agent"
    /\ \/ /\ disk' = AfterAgent(disk, started, runner, GroupPairs[prompt_next][1],
                                GroupPairs[prompt_next][2], run_id)
          /\ inv_pc' = "validate"
          /\ UNCHANGED prompt_next
       \/ /\ NextPairOf(prompt_next)
          /\ UNCHANGED disk
    /\ UNCHANGED <<canonical_snapshot, canonical_file, built, strands_run_id,
                   runner, run_id, started>>
    /\ UNCHANGED <<pairVars, runVars, reportVars, agentVars, streamVars>>

\* detection, validation and classification of the pair; when they return
\* the sidecar is written, when one raises the error is logged
PairValidate ==
    /\ inv_pc = "validate"
    /\ \/ disk' = Written(disk,
                          PairPath(runner, GroupPairs[prompt_next][1],
                                   GroupPairs[prompt_next][2], run_id, "validation"),
                          Some(SidecarOf(started, runner, GroupPairs[prompt_next][1],
                                         GroupPairs[prompt_next][2], canonical_snapshot,
                                         [valid |-> Some(TRUE)])))
       \/ UNCHANGED disk
    /\ NextPairOf(prompt_next)
    /\ UNCHANGED <<canonical_snapshot, canonical_file, built, strands_run_id,
                   runner, run_id, started>>
    /\ UNCHANGED <<pairVars, runVars, reportVars, agentVars, streamVars>>

\* main() of the comparison: the strands run id is chosen; without one
\* RuntimeError is raised
ChooseRunId ==
    /\ report_pc = "choose"
    /\ inv_pc = "idle"
    /\ strands_run_id' = choose_strands_run_id(disk, GroupModels, GroupPromptNames)
    /\ report_pc' = IF strands_run_id' = None THEN "raised" ELSE "load_disk"
    /\ UNCHANGED <<report_next, rows, missing, summary, headline, insight_counts>>
    /\ UNCHANGED <<disk, canonical_snapshot, canonical_file, built, inv_pc, runner,
                   run_id, started, prompt_next>>
    /\ UNCHANGED <<pairVars, runVars, agentVars, streamVars>>

\* one iteration of the loading loops of main() on the run directory
LoadFromDisk ==
    /\ report_pc = "load_disk"
    /\ LET pr == GroupPairs[report_next]
           s  == RecordFiles(disk, "scratch", pr[1], pr[2], None)
           t  == RecordFiles(disk, "strands", pr[1], pr[2], strands_run_id)
       IN  IF s.raised \/ t.raised
           THEN /\ report_pc' = "raised"
                /\ UNCHANGED <<report_next, rows, missing>>
           ELSE /\ Loaded(pr, load_record("scratch", pr[1], pr[2], s.file),
                              load_record("strands", pr[1], pr[2], t.file))
                /\ report_next' = report_next + 1
                /\ report_pc' = IF report_next = Len(GroupPairs)
                                THEN "loaded" ELSE "load_disk"
    /\ UNCHANGED <<summary, headline, insight_counts>>
    /\ UNCHANGED <<disk, canonical_snapshot, canonical_file, built, strands_run_id,
                   inv_pc, runner, run_id, started, prompt_next>>
    /\ UNCHANGED <<pairVars, runVars, agentVars, streamVars>>

ChooseNext ==
    \/ ChooseRunId
    \/ LoadFromDisk

ChooseSpec == ChooseInit /\ [][ChooseNext]_vars

GroupNext ==
    \/ StartInvocation
    \/ PairAgent
    \/ PairValidate
    \/ ChooseRunId
    \/ LoadFromDisk

GroupSpec == GroupInit /\ [][GroupNext]_vars

(***************************************************************************)
(* Properties.                                                             *)
(***************************************************************************)
\* validate_result has returned a verdict for the current pair
Returned == validation # None

\* classify_provenance has returned a label for the current pair
Classified == provenance # None

\* C1 (as stated): every verdict whose valid is false is labelled
\* hybrid_or_failed, whether or not a tool was used.
C1_FalseIsAlwaysHybrid ==
    (Classified /\ validation.valid = Some(FALSE))
        => provenance = Some("hybrid_or_failed")

\* C1 (amended): a verdict whose valid is false is labelled hybrid_or_failed
\* when a tool was used and parametric when no tool was used.
C1_FalseVerdictLabel ==
    (Classified /\ validation.valid = Some(FALSE))
        => provenance = Some(IF tool_used THEN "hybrid_or_failed" ELSE "parametric")

C1_Witness ==
    /\ Classified
    /\ validation.valid = Some(FALSE)
    /\ ~tool_used
    /\ provenance = Some("parametric")

\* C2: valid = null gives unverified_tool_used / unverified_parametric by
\* tool use, valid = true gives tool-assisted / parametric by tool use, the
\* label is one of the five, and it is the label of the verdict stripped of
\* everything but its valid field.
C2_NullAndTrueLabels ==
    Classified =>
        /\ validation.valid = None =>
             provenance = Some(IF tool_used THEN "unverified_tool_used"
                                            ELSE "unverified_parametric")
        /\ validation.valid = Some(TRUE) =>
             provenance = Some(IF tool_used THEN "tool-assisted" ELSE "parametric")
        /\ provenance[1] \in ProvenanceLabels
        /\ provenance[1] = classify_provenance(tool_used, [valid |-> validation.valid])

C2_Witness ==
    /\ Classified
    /\ validation.valid = None
    /\ tool_used
    /\ provenance = Some("unverified_tool_used")

\* C3: the label written to a sidecar follows the glossary of the
\* interpretation guide: parametric iff no tool and a boolean valid,
\* tool-assisted iff tool and valid true, hybrid_or_failed iff tool and
\* valid false.
C3_SidecarMatchesGlossary ==
    sidecar # None =>
        LET rec == sidecar[1]
            v   == rec.validation.valid
        IN  /\ rec.provenance = "parametric"
                 <=> (~rec.tool_used /\ v \in {Some(TRUE), Some(FALSE)})
            /\ rec.provenance = "tool-assisted" <=> (rec.tool_used /\ v = Some(TRUE))
            /\ rec.provenance = "hybrid_or_failed"
                 <=> (rec.tool_used /\ v = Some(FALSE))

C3_Witness ==
    /\ sidecar # None
    /\ sidecar[1].provenance = "hybrid_or_failed"
    /\ sidecar[1].tool_used
    /\ sidecar[1].validation.valid = Some(FALSE)

\* the pair is past its validate_result call
PastValidation == pc \in {"classify", "write_sidecar", "pair_done", "raised"}

\* the canonical record and the tolerances of the current pair
CanonNow == CanonicalOf(prompt_obj, canonical_snapshot)

ConfigNow == GetOr(prompt_obj, "validation", <<>>)

\* C4: the verdict's valid is null, with reason validation_not_implemented,
\* exactly when the prompt type is none of weather, temperature, location,
\* exchange_rate, iss; for those five types it is true or false.
C4_NullIffUnknownType ==
    Returned =>
        /\ validation.valid = None
             <=> TypeOf(prompt_obj) \notin {"weather", "temperature", "location",
                                            "exchange_rate", "iss"}
        /\ validation.valid = None
             => validation = [valid |-> None, reason |-> "validation_not_implemented"]
        /\ validation.valid \in {None, Some(TRUE), Some(FALSE)}

C4_Witness ==
    /\ Returned
    /\ TypeOf(prompt_obj) = "experimental"
    /\ validation.valid = None
    /\ final_text # <<>>

\* the reasons a validator can fail closed with, for the current pair: empty
\* when the text yields a quantity and the canonical record is complete
C5_Lacks ==
    LET t == TypeOf(prompt_obj)
        noTemp == LET q == _parse_temperature(final_text)
                  IN  q.value = None \/ q.unit = None
        noCoord == LET q == _parse_lat_lon(final_text)
                   IN  q.lat = None \/ q.lon = None
        noRate == _parse_exchange_rate(final_text) = None
        lacks(fields) == \E f \in fields : f \notin DOMAIN CanonNow
    IN  CASE t \in {"weather", "temperature"} -> noTemp \/ lacks({"temp_c"})
          [] t = "location" -> noCoord \/ lacks({"lat", "lon"})
          [] t = "exchange_rate" -> noRate \/ lacks({"rate"})
          [] t = "iss" -> noCoord \/ lacks({"timestamp", "lat", "lon"})
          [] OTHER -> FALSE

\* C5: when the canonical record lacks a required field or the text yields
\* no quantity, the validator returns (it does not raise) valid = false with
\* one of the seven reason codes.
C5_FailClosed ==
    (PastValidation /\ C5_Lacks) =>
        /\ pc # "raised"
        /\ Returned
        /\ validation.valid = Some(FALSE)
        /\ DOMAIN validation = {"valid", "reason"}
        /\ validation.reason \in
             {"no_temperature_found", "no_canonical_temperature",
              "no_coordinates_found", "no_canonical_coordinates",
              "no_rate_found", "no_canonical_rate", "no_canonical_iss_snapshot"}

\* a temperature within the default tolerance of zero, and no canonical one
C5_Witness ==
    /\ Returned
    /\ TypeOf(prompt_obj) = "weather"
    /\ "temp_c" \notin DOMAIN CanonNow
    /\ "validation" \notin DOMAIN prompt_obj
    /\ _parse_temperature(final_text) = [value |-> Some(RInt(2)), unit |-> Some("C")]
    /\ validation = [valid |-> Some(FALSE), reason |-> "no_canonical_temperature"]

\* v degrees of unit u, in Celsius: 5v/9 - 160/9 for Fahrenheit
C6_Celsius(v, u) ==
    IF u = "C" THEN v ELSE RSub(RDiv(RMul(v, RInt(5)), RInt(9)), Rat(160, 9))

\* |predicted - expected| for the current pair
C6_Diff ==
    LET q == _parse_temperature(final_text)
    IN  RAbs(RSub(C6_Celsius(q.value[1], q.unit[1]), CanonNow.temp_c))

\* the tolerance in force: the configured max_diff_c, 3 without one
C6_Limit == IF "max_diff_c" \in DOMAIN ConfigNow THEN ConfigNow.max_diff_c ELSE RInt(3)

\* a temperature was extracted and the canonical record has one
C6_Comparable ==
    /\ Returned
    /\ TypeOf(prompt_obj) \in {"weather", "temperature"}
    /\ "temp_c" \in DOMAIN CanonNow
    /\ _parse_temperature(final_text).value # None
    /\ _parse_temperature(final_text).unit # None

\* C6: the verdict is valid exactly when the Celsius value of the extracted
\* temperature differs from canonical temp_c by at most max_diff_c, the
\* boundary included, with max_diff_c = 3 when the prompt configures none.
C6_WithinTolerance ==
    C6_Comparable =>
        /\ validation.valid = Some(C6_Diff.n * C6_Limit.d <= C6_Limit.n * C6_Diff.d)
        /\ validation.max_diff_c = C6_Limit

\* 77 F is 25 C, exactly 3 from a canonical 22 with the default tolerance
C6_Witness ==
    /\ C6_Comparable
    /\ _parse_temperature(final_text).unit = Some("F")
    /\ "validation" \notin DOMAIN prompt_obj
    /\ C6_Diff = RInt(3)
    /\ validation.valid = Some(TRUE)

\* the numeric tokens of the current text, in order
C7_Tokens == FindTokens(final_text, 1)

\* the least member of a non-empty set of indices
C7_Least(hits) == CHOOSE k \in hits : \A j \in hits : k <= j

\* the verdict of the exchange-rate validator reports the extraction `rate`
C7_Reports(rate) ==
    /\ _parse_exchange_rate(final_text) = rate
    /\ (Returned /\ "rate" \in DOMAIN CanonNow) =>
          IF rate = None
          THEN validation = [valid |-> Some(FALSE), reason |-> "no_rate_found"]
          ELSE validation.predicted_rate = RRound(rate[1], 6)

\* C7 (as stated): the extracted rate is the first token whose magnitude is
\* in [0.0001, 10], and there is none only when no token has such a magnitude.
C7_FirstByMagnitude ==
    (PastValidation /\ TypeOf(prompt_obj) = "exchange_rate") =>
        LET hits == {k \in 1 .. Len(C7_Tokens) :
                        /\ RLe(Rat(1, 10000), RAbs(C7_Tokens[k]))
                        /\ RLe(RAbs(C7_Tokens[k]), RInt(10))}
        IN  C7_Reports(IF hits = {} THEN None ELSE Some(C7_Tokens[C7_Least(hits)]))

\* C7 (amended): the extracted rate is the first token whose signed value is
\* in [0.0001, 10]; tokens outside the band, the negative ones among them,
\* are skipped; there is no rate only when no token has a value in the band,
\* and a returned rate is inside the band.
C7_FirstByValue ==
    (PastValidation /\ TypeOf(prompt_obj) = "exchange_rate") =>
        LET hits == {k \in 1 .. Len(C7_Tokens) :
                        /\ RLe(Rat(1, 10000), C7_Tokens[k])
                        /\ RLe(C7_Tokens[k], RInt(10))}
            rate == _parse_exchange_rate(final_text)
        IN  /\ C7_Reports(IF hits = {} THEN None ELSE Some(C7_Tokens[C7_Least(hits)]))
            /\ rate # None => RLe(Rat(1, 10000), rate[1]) /\ RLe(rate[1], RInt(10))

\* a negative token of magnitude 10 is skipped for the rate after it
C7_Witness ==
    /\ Returned
    /\ TypeOf(prompt_obj) = "exchange_rate"
    /\ "rate" \in DOMAIN CanonNow
    /\ Len(C7_Tokens) = 2
    /\ C7_Tokens[1] = RInt(-10)
    /\ validation.predicted_rate = Rat(93, 100)

\* a second sample was fetched and the expected position computed
IssCompared == iss_locals # None

\* grace_seconds in force: the configured one, 10 without one
GraceNow == IF "grace_seconds" \in DOMAIN ConfigNow THEN ConfigNow.grace_seconds ELSE 10

\* the verdict reports the expected position (lat, lon) and the method
IssReports(lat, lon, method) ==
    /\ iss_locals[1].exp_lat = lat
    /\ iss_locals[1].exp_lon = lon
    /\ iss_locals[1].mode = method
    /\ validation.expected_lat = RRound(lat, 6)
    /\ validation.expected_lon = RRound(lon, 6)
    /\ validation.method = method

\* C8: with grace_seconds >= 0 and |eval_time_unix - t0| <= grace_seconds
\* the method is snapshot_near_eval and the expected position is
\* (lat0, lon0), whatever the second sample is.
C8_WithinGrace ==
    (/\ IssCompared
     /\ GraceNow >= 0
     /\ Abs(eval_time_unix - CanonNow.timestamp) <= GraceNow)
        => IssReports(CanonNow.lat, CanonNow.lon, "snapshot_near_eval")

\* at the edge of a one-second window, with a second sample elsewhere
C8_Witness ==
    /\ IssCompared
    /\ GraceNow = 1
    /\ Abs(eval_time_unix - CanonNow.timestamp) = 1
    /\ sample_1[1].lat # CanonNow.lat
    /\ sample_1[1].timestamp > eval_time_unix
    /\ validation.method = "snapshot_near_eval"
    /\ validation.expected_lat = CanonNow.lat

\* eval_time_unix is outside the grace window of t0
OutsideGrace == Abs(eval_time_unix - CanonNow.timestamp) > GraceNow

\* x is between a and b, ends included, in either order
C9_Between(a, x, b) == (RLe(a, x) /\ RLe(x, b)) \/ (RLe(b, x) /\ RLe(x, a))

\* e, scaled by t1 - t0, is a scaled by t1 - t0 plus (b - a)(eval - t0)
C9_OnLine(e, a, b) ==
    LET t0 == CanonNow.timestamp
        t1 == sample_1[1].timestamp
    IN  RMul(e, RInt(t1 - t0))
          = RAdd(RMul(a, RInt(t1 - t0)), RMul(RSub(b, a), RInt(eval_time_unix - t0)))

\* C9: outside the grace window and with eval_time_unix between t0 and t1,
\* ends included and in either order, the method is interpolated, each
\* expected coordinate is c0 + (c1 - c0)(eval - t0)/(t1 - t0), it lies
\* between c0 and c1, and at eval_time_unix = t1 it is sample 1's.
C9_Interpolated ==
    (/\ IssCompared
     /\ OutsideGrace
     /\ \/ RLe(RInt(CanonNow.timestamp), RInt(eval_time_unix))
           /\ RLe(RInt(eval_time_unix), RInt(sample_1[1].timestamp))
        \/ RLe(RInt(sample_1[1].timestamp), RInt(eval_time_unix))
           /\ RLe(RInt(eval_time_unix), RInt(CanonNow.timestamp)))
        => LET L == iss_locals[1]
           IN  /\ IssReports(L.exp_lat, L.exp_lon, "interpolated")
               /\ C9_OnLine(L.exp_lat, CanonNow.lat, sample_1[1].lat)
               /\ C9_OnLine(L.exp_lon, CanonNow.lon, sample_1[1].lon)
               /\ C9_Between(CanonNow.lat, L.exp_lat, sample_1[1].lat)
               /\ C9_Between(CanonNow.lon, L.exp_lon, sample_1[1].lon)
               /\ eval_time_unix = sample_1[1].timestamp
                    => L.exp_lat = sample_1[1].lat /\ L.exp_lon = sample_1[1].lon

\* evaluated at t1, which is earlier than t0, outside a one-second window
C9_Witness ==
    /\ IssCompared
    /\ GraceNow = 1
    /\ eval_time_unix = sample_1[1].timestamp
    /\ sample_1[1].timestamp < CanonNow.timestamp - 1
    /\ sample_1[1].lat # CanonNow.lat
    /\ validation.method = "interpolated"
    /\ validation.expected_lat = sample_1[1].lat
    /\ validation.expected_lon = sample_1[1].lon

\* eval_time_unix is strictly between t0 and t1, in either order
StrictlyBetween ==
    \/ CanonNow.timestamp < eval_time_unix /\ eval_time_unix < sample_1[1].timestamp
    \/ sample_1[1].timestamp < eval_time_unix /\ eval_time_unix < CanonNow.timestamp

\* the elapsed-time fraction (eval_time_unix - t0) / (t1 - t0)
C10_Fraction ==
    Rat(eval_time_unix - CanonNow.timestamp,
        sample_1[1].timestamp - CanonNow.timestamp)

\* C10 (as stated): whenever eval_time_unix is strictly between t0 and t1
\* the method is interpolated and the expected position is on the line
\* between the samples at the elapsed-time fraction.
C10_BetweenIsInterpolated ==
    (IssCompared /\ StrictlyBetween) =>
        IssReports(RAdd(CanonNow.lat,
                        RMul(C10_Fraction, RSub(sample_1[1].lat, CanonNow.lat))),
                   RAdd(CanonNow.lon,
                        RMul(C10_Fraction, RSub(sample_1[1].lon, CanonNow.lon))),
                   "interpolated")

\* C10 (amended): whenever eval_time_unix is strictly between t0 and t1 and
\* more than grace_seconds away from t0, the method is interpolated and the
\* expected position is on the line between the samples at the elapsed-time
\* fraction.
C10_BetweenOutsideGrace ==
    (IssCompared /\ StrictlyBetween /\ OutsideGrace) =>
        IssReports(RAdd(CanonNow.lat,
                        RMul(C10_Fraction, RSub(sample_1[1].lat, CanonNow.lat))),
                   RAdd(CanonNow.lon,
                        RMul(C10_Fraction, RSub(sample_1[1].lon, CanonNow.lon))),
                   "interpolated")

\* three quarters of the way from t1 back to t0, t1 being the earlier sample
C10_Witness ==
    /\ IssCompared
    /\ StrictlyBetween
    /\ OutsideGrace
    /\ sample_1[1].timestamp < CanonNow.timestamp
    /\ C10_Fraction = Rat(3, 4)
    /\ sample_1[1].lat = RInt(14)
    /\ validation.method = "interpolated"
    /\ validation.expected_lat = RInt(13)
    /\ validation.expected_lon = RInt(26)

\* eval_time_unix is between t0 and t1, ends included, in either order
BetweenSamples ==
    \/ CanonNow.timestamp <= eval_time_unix /\ eval_time_unix <= sample_1[1].timestamp
    \/ sample_1[1].timestamp <= eval_time_unix /\ eval_time_unix <= CanonNow.timestamp

\* C11: outside the grace window and not between the samples, the expected
\* position is that of the sample whose timestamp is nearest to
\* eval_time_unix, with method nearest_snapshot_0 or nearest_snapshot_1
\* accordingly; and the method is always one of the four.
C11_NearestSnapshot ==
    IssCompared =>
        /\ validation.method \in {"snapshot_near_eval", "interpolated",
                                  "nearest_snapshot_0", "nearest_snapshot_1"}
        /\ (OutsideGrace /\ ~BetweenSamples) =>
             LET d0 == Abs(eval_time_unix - CanonNow.timestamp)
                 d1 == Abs(eval_time_unix - sample_1[1].timestamp)
             IN  \/ d0 <= d1
                    /\ IssReports(CanonNow.lat, CanonNow.lon, "nearest_snapshot_0")
                 \/ d1 < d0
                    /\ IssReports(sample_1[1].lat, sample_1[1].lon, "nearest_snapshot_1")

\* evaluated after both samples, the second one being the later
C11_Witness ==
    /\ IssCompared
    /\ OutsideGrace
    /\ CanonNow.timestamp < sample_1[1].timestamp
    /\ sample_1[1].timestamp < eval_time_unix
    /\ sample_1[1].lat # CanonNow.lat
    /\ validation.method = "nearest_snapshot_1"
    /\ validation.expected_lat = sample_1[1].lat

\* the tolerances of the satellite validator in force for the current pair
C12_Base == GetOr(ConfigNow, "base_km", RInt(100))

C12_Speed == GetOr(ConfigNow, "speed_kmps", Rat(766, 100))

C12_Factor == GetOr(ConfigNow, "uncertainty_factor", Rat(13, 10))

\* delta_s and allowed_km as validate_iss computes them at the evaluation
\* time e between the samples of the locals L
C12_LocalsAt(L, e) == IssBudget(L.t0, L.t1, e, C12_Base, C12_Speed, C12_Factor)

\* the budget of M is at least that of L when its delta_s is
C12_Monotone(L, M) == L.delta_s <= M.delta_s => RLe(L.allowed_km, M.allowed_km)

\* C12: allowed_km = base_km + speed_kmps * delta_s * uncertainty_factor with
\* delta_s the smaller of the two time gaps; the verdict is valid exactly
\* when distance_km <= allowed_km, the boundary included; allowed_km is at
\* least base_km and does not decrease when delta_s grows.
C12_AllowedDistance ==
    IssCompared =>
        LET L  == iss_locals[1]
            d0 == Abs(eval_time_unix - CanonNow.timestamp)
            d1 == Abs(eval_time_unix - sample_1[1].timestamp)
            ds == IF d0 <= d1 THEN d0 ELSE d1
            budget == RAdd(C12_Base, RMul(C12_Speed, RMul(RInt(ds), C12_Factor)))
        IN  /\ L.delta_s = ds
            /\ validation.delta_s = ds
            /\ L.allowed_km = budget
            /\ validation.allowed_km = RRound(budget, 3)
            /\ validation.distance_km = RRound(L.distance_km, 3)
            /\ validation.valid = Some(RLe(L.distance_km, budget))
            /\ RLe(C12_Base, L.allowed_km)
            /\ \A e \in 0 .. MaxTime : C12_Monotone(L, C12_LocalsAt(L, e))

\* distance and budget are both zero: the boundary, and the verdict is valid
C12_Witness ==
    /\ IssCompared
    /\ C12_Base = RInt(0)
    /\ iss_locals[1].delta_s = 0
    /\ iss_locals[1].distance_km = RInt(0)
    /\ iss_locals[1].allowed_km = RInt(0)
    /\ validation.valid = Some(TRUE)

\* the current pair's validation is a validate_iss call that is over,
\* by a return or by an exception
IssCallOver == PastValidation /\ TypeOf(prompt_obj) = "iss"

\* C13: a validate_iss call that passes the extraction check and the
\* canonical check makes exactly one live fetch and takes (lat1, lon1, t1)
\* from it, not from the snapshot; a call that returns no_coordinates_found
\* or no_canonical_iss_snapshot makes no fetch.
C13_OneLiveFetch ==
    IssCallOver =>
        LET q == _parse_lat_lon(final_text)
            passes == /\ q.lat # None /\ q.lon # None
                      /\ {"timestamp", "lat", "lon"} \subseteq DOMAIN CanonNow
        IN  /\ iss_fetches = IF passes THEN 1 ELSE 0
            /\ (Returned /\ passes) =>
                  /\ sample_1 # None
                  /\ validation.canonical_t1_unix = sample_1[1].timestamp
                  /\ iss_locals[1].t1 = sample_1[1].timestamp
                  /\ iss_locals[1].mode = "nearest_snapshot_1" =>
                        /\ iss_locals[1].exp_lat = sample_1[1].lat
                        /\ iss_locals[1].exp_lon = sample_1[1].lon
            /\ (Returned /\ ~passes) =>
                  /\ sample_1 = None
                  /\ validation.reason
                       \in {"no_coordinates_found", "no_canonical_iss_snapshot"}
            /\ (Returned /\ "reason" \in DOMAIN validation) => iss_fetches = 0

\* the fetched sample differs from the snapshot's in time and place
C13_Witness ==
    /\ IssCallOver
    /\ Returned
    /\ iss_fetches = 1
    /\ sample_1[1].timestamp # CanonNow.timestamp
    /\ sample_1[1].lat # CanonNow.lat
    /\ validation.canonical_t1_unix = sample_1[1].timestamp
    /\ validation.canonical_t0_unix = CanonNow.timestamp

\* the fetchers the claim assigns to a prompt type, in call order
C14_Fetchers(prompt) ==
    CASE TypeOf(prompt) = "location" -> <<"geocode">>
      [] TypeOf(prompt) \in {"weather", "temperature"} -> <<"geocode", "weather">>
      [] TypeOf(prompt) = "iss" -> <<"iss">>
      [] TypeOf(prompt) = "exchange_rate" -> <<"fx">>
      [] OTHER -> <<>>

\* the (prompt, fetcher) calls of the first k prompts of the manifest
RECURSIVE C14_Plan(_)
C14_Plan(k) ==
    IF k = 0 THEN <<>>
    ELSE C14_Plan(k - 1) \o
         [i \in 1 .. Len(C14_Fetchers(manifest[k])) |->
            <<manifest[k].name, C14_Fetchers(manifest[k])[i]>>]

\* the (prompt, fetcher) calls made so far
C14_Made == [i \in DOMAIN fetch_log |-> <<fetch_log[i].prompt, fetch_log[i].fetcher>>]

\* the prompts whose iteration is complete
C14_Done == 1 .. (build_next - 1)

\* C14: build_canonical_snapshot takes the prompts in manifest order and
\* makes, per prompt, exactly the fetcher calls of its type: one geocode
\* call for location; a geocode call and then a weather call with the
\* latitude and longitude the geocode call returned for weather and
\* temperature; one satellite call for iss; one FX call with base and quote
\* defaulting to USD and EUR for exchange_rate; no call, an empty canonical
\* record and no error for any other type.
C14_FetchesPerType ==
    /\ run_pc \in {"build", "loop", "finished"} =>
        /\ C14_Made = C14_Plan(build_next - 1)
        /\ DOMAIN snapshot_dict.prompts = {manifest[k].name : k \in C14_Done}
        /\ \A k \in C14_Done :
             /\ snapshot_dict.prompts[manifest[k].name].type = manifest[k].type
             /\ C14_Fetchers(manifest[k]) = <<>> =>
                   snapshot_dict.prompts[manifest[k].name].canonical = <<>>
    /\ run_pc = "aborted" =>
        /\ build_next \in DOMAIN manifest
        /\ \E n \in 1 .. Len(C14_Fetchers(manifest[build_next])) :
             C14_Made = C14_Plan(build_next - 1) \o
                [i \in 1 .. n |->
                    <<manifest[build_next].name, C14_Fetchers(manifest[build_next])[i]>>]
        /\ fetch_log[Len(fetch_log)].result = None
    /\ \A i \in DOMAIN fetch_log :
        /\ i < Len(fetch_log) => fetch_log[i].result # None
        /\ fetch_log[i].fetcher = "weather" =>
             fetch_log[i].args = <<fetch_log[i - 1].result[1].lat,
                                   fetch_log[i - 1].result[1].lon>>
        /\ fetch_log[i].fetcher = "fx" =>
             \E k \in DOMAIN manifest :
                /\ manifest[k].name = fetch_log[i].prompt
                /\ "base_currency" \notin DOMAIN manifest[k]
                      => fetch_log[i].args[1] = "USD"
                /\ "quote_currency" \notin DOMAIN manifest[k]
                      => fetch_log[i].args[2] = "EUR"
                /\ fetch_log[i].prompt = "fx_gbp" => fetch_log[i].args = <<"GBP", "USD">>

\* a temperature prompt and then the default exchange-rate prompt were built
C14_Witness ==
    /\ run_pc = "loop"
    /\ Len(manifest) = 2
    /\ TypeOf(manifest[1]) = "temperature"
    /\ manifest[2].name = "fx"
    /\ Len(fetch_log) = 3
    /\ fetch_log[2].args = <<Rat(485, 10), Rat(25, 10)>>
    /\ fetch_log[3].args = <<"USD", "EUR">>

\* the run is in or past its (model, prompt) loops
C15_Looping == run_pc \in {"loop", "finished"}

\* C15: in one run the canonical snapshot is built exactly once, before any
\* agent runs; it is never modified afterwards; and for every prompt each
\* model's verdict is computed against the canonical record that one build
\* stored for the prompt.
C15_OneSnapshot ==
    /\ [](/\ builds <= 1
          /\ attempts # <<>> => (builds = 1 /\ C15_Looping)
          /\ C15_Looping =>
                /\ builds = 1
                /\ canonical_snapshot = snapshot_dict
                /\ build_next = Len(manifest) + 1
          /\ (C15_Looping /\ validation # None) =>
                /\ prompt_obj = manifest[pair[2]]
                /\ validation =
                     validate_result(manifest[pair[2]], final_text, snapshot_dict,
                                     eval_time_unix,
                                     IF sample_1 = None THEN None ELSE sample_1[1])
          /\ (C15_Looping /\ sidecar # None) =>
                sidecar[1].canonical = snapshot_dict.prompts[manifest[pair[2]].name])
    /\ [][C15_Looping => /\ canonical_snapshot' = canonical_snapshot
                         /\ snapshot_dict' = snapshot_dict
                         /\ builds' = builds]_vars

\* the last model's verdict on a prompt is written, after the first model's
C15_Witness ==
    /\ run_pc = "loop"
    /\ pair = <<MaxModels, 1>>
    /\ MaxModels > 1
    /\ sidecar # None
    /\ validation.valid = Some(TRUE)
    /\ builds = 1

\* every (model, prompt) pair of the run, models outermost, prompts in
\* manifest order
C16_AllPairs ==
    [i \in 1 .. MaxModels * Len(manifest) |->
        <<((i - 1) \div Len(manifest)) + 1, ((i - 1) % Len(manifest)) + 1>>]

\* an exception is pending in the try block of the current pair
C16_Raised == run_pc = "loop" /\ pc = "raised"

\* C16: in the per-(model, prompt) loop an exception raised while a pair is
\* handled (agent creation or run, transcript write, validation with its
\* satellite re-fetch, sidecar write) is caught and logged, the remaining
\* pairs are still attempted in models-then-prompts order, and the loop
\* always reaches the last pair.
C16_LoopReachesLastPair ==
    /\ [](/\ Len(attempts) <= Len(C16_AllPairs)
          /\ attempts = SubSeq(C16_AllPairs, 1, Len(attempts))
          /\ errors_logged <= 1
          /\ errors_logged = 1 => attempts[Len(attempts)] = pair
          /\ C16_Raised => attempts[Len(attempts)] = pair
          /\ run_pc = "finished" => attempts = C16_AllPairs)
    /\ [][C16_Raised => /\ errors_logged' = errors_logged + 1
                        /\ run_pc' = "loop"
                        /\ pc' = "pair_done"
                        /\ attempts' = attempts]_vars
    /\ (run_pc = "loop" ~> (run_pc = "finished" /\ attempts = C16_AllPairs))

\* the last pair of a run of several prompts raised, and the exception was
\* caught and logged
C16_Witness ==
    /\ run_pc = "loop"
    /\ Len(manifest) > 1
    /\ pair = <<MaxModels, Len(manifest)>>
    /\ pc = "pair_done"
    /\ errors_logged = 1
    /\ attempts = C16_AllPairs

\* a canonical fetcher has failed during the run: in the snapshot build, or
\* in the satellite re-fetch of a pair's validation
C17_FetcherFailed ==
    \/ \E i \in DOMAIN fetch_log : fetch_log[i].result = None
    \/ run_pc = "loop" /\ iss_fetches = 1 /\ sample_1 = None /\ pc # "validate"

\* C17: a configuration or provider failure of a canonical fetcher (missing
\* API key, non-success response, missing expected field) never aborts the
\* batch: wherever in a run it occurs it is logged and the run goes on, so
\* that every (model, prompt) pair is still attempted.
C17_FetcherFailureNeverAborts ==
    /\ [](C17_FetcherFailed => run_pc # "aborted")
    /\ (C17_FetcherFailed ~> (run_pc = "finished" /\ attempts = C16_AllPairs))

\* the fields of a provider's answer the fetcher called needs for its record
C18_FieldsPresent(call) ==
    LET data == call.response[1].data
    IN  CASE call.fetcher = "geocode" ->
                /\ Get(data, "status") = Some("OK")
                /\ GetOr(data, "results", <<>>) # <<>>
                /\ {"lat", "lng"} \subseteq DOMAIN data.results[1].geometry.location
          [] call.fetcher = "weather" ->
                "main" \in DOMAIN data /\ "temp" \in DOMAIN data.main
          [] call.fetcher = "iss" ->
                {"latitude", "longitude", "timestamp"} \subseteq DOMAIN data
          [] call.fetcher = "fx" ->
                /\ Get(data, "result") = Some("success")
                /\ "rates" \in DOMAIN data
                /\ call.args[2] \in DOMAIN data.rates

\* the API key a fetcher reads, if it reads one
C18_KeyOf(call) ==
    CASE call.fetcher = "geocode" -> Some("GOOGLE_GEOCODING_API_KEY")
      [] call.fetcher = "weather" -> Some("OPENWEATHER_API_KEY")
      [] OTHER -> None

\* whether the key the call reads is unset or empty
C18_KeyAbsent(call) ==
    /\ C18_KeyOf(call) # None
    /\ (C18_KeyOf(call)[1] \notin DOMAIN environ \/ environ[C18_KeyOf(call)[1]] = "")

\* C18: a fetcher call issues at most one HTTP GET and never retries; the
\* geocode and weather fetchers raise before any request when their API key
\* is absent; a non-success response, or a response lacking a field the
\* fetcher needs (coordinates, temperature, position and timestamp, the
\* quoted rate), makes the fetcher raise instead of returning a record.
C18_SingleShotFetchers ==
    \A i \in DOMAIN fetch_log :
        /\ fetch_log[i].gets \in {0, 1}
        /\ (fetch_log[i].gets = 0) = C18_KeyAbsent(fetch_log[i])
        /\ fetch_log[i].gets = 0 => fetch_log[i].result = None
        /\ fetch_log[i].gets = 1 =>
             /\ fetch_log[i].response # None
             /\ (fetch_log[i].result # None) =
                    (/\ fetch_log[i].response[1].ok
                     /\ C18_FieldsPresent(fetch_log[i]))

\* the geocode fetcher raised on an answer without a latitude, after one GET
C18_Witness ==
    /\ run_pc = "aborted"
    /\ fetch_log # <<>>
    /\ fetch_log[Len(fetch_log)].fetcher = "geocode"
    /\ fetch_log[Len(fetch_log)].gets = 1
    /\ fetch_log[Len(fetch_log)].response[1].ok
    /\ Get(fetch_log[Len(fetch_log)].response[1].data, "status") = Some("OK")
    /\ fetch_log[Len(fetch_log)].result = None

\* the loaded records of a framework whose verdict is null
C19_NullRecords(framework) ==
    {i \in DOMAIN rows : rows[i].framework = framework /\ ValidOf(rows[i]) = None}

\* the expected pairs of a framework for which no record was loaded
C19_MissingPairs(framework) ==
    {i \in DOMAIN ExpectedPairs :
        IndexGet(rows, ExpectedPairs[i][1], ExpectedPairs[i][2], framework) = None}

\* C19: the comparison report keeps missing (no record loaded), unverified
\* (valid is null) and failed (valid is false) apart for every expected
\* (framework, model, prompt): the "unverified" count it prints for a
\* framework is the number of that framework's loaded records whose verdict
\* is null, and does not include the missing pairs, which are counted under
\* "Missing artifacts".
C19_UnverifiedExcludesMissing ==
    headline # None =>
        /\ headline[1].scratch_unverified = Cardinality(C19_NullRecords("scratch"))
        /\ headline[1].strands_unverified = Cardinality(C19_NullRecords("strands"))
        /\ headline[1].missing_artifacts =
              Cardinality(C19_MissingPairs("scratch"))
              + Cardinality(C19_MissingPairs("strands"))

\* the records of one model under one framework, as main() groups them
C20_Records(framework, m) == RecordsOf(rows, framework, m)

\* summarize_model leaves the null records out of verified_runs, valid_runs
\* and fail_reasons
C20_SummariesExcludeNull ==
    \A framework \in {"scratch", "strands"}, m \in DOMAIN summary[1].by_model :
        LET sm   == summary[1].by_model[m][framework]
            recs == C20_Records(framework, m)
        IN  /\ sm.runs = Len(recs)
            /\ sm.verified_runs =
                 Len(recs) - Cardinality({i \in DOMAIN recs : ValidOf(recs[i]) = None})
            /\ sm.valid_runs =
                 Cardinality({i \in DOMAIN recs : ValidOf(recs[i]) = Some(TRUE)})
            /\ sm.valid_runs <= sm.verified_runs
            /\ sm.verified_runs <= sm.runs
            /\ \A k \in DOMAIN sm.fail_reasons :
                 sm.fail_reasons[k] =
                    Cardinality({i \in DOMAIN recs :
                                    /\ ValidOf(recs[i]) = Some(FALSE)
                                    /\ Get(recs[i].validation, "reason") = Some(k)})

\* a null verdict in a pairwise row is scored differently from a false one
C20_PairwiseTellsNullFromFalse ==
    \A i \in DOMAIN summary[1].pairwise :
        LET row == summary[1].pairwise[i]
        IN  /\ row.scratch_valid = None =>
                 PairOutcome(None, row.strands_valid)
                    # PairOutcome(Some(FALSE), row.strands_valid)
            /\ row.strands_valid = None =>
                 PairOutcome(row.scratch_valid, None)
                    # PairOutcome(row.scratch_valid, Some(FALSE))

\* C20: aggregate reporting never conflates null with false: summarize_model
\* never counts a null record in verified_runs, valid_runs or fail_reasons
\* (so valid_runs <= verified_runs <= runs), and the pairwise win/tie tally
\* never scores a pair with a null verdict as it scores the same pair with
\* the null replaced by false.
C20_NullNeverCountedAsFalse ==
    /\ summary # None => (C20_SummariesExcludeNull /\ C20_PairwiseTellsNullFromFalse)
    /\ insight_counts # None =>
          \A v \in {None, Some(TRUE), Some(FALSE)} :
             /\ InsightOutcome([scratch |-> [valid |-> None], strands |-> [valid |-> v]])
                  # InsightOutcome([scratch |-> [valid |-> Some(FALSE)],
                                    strands |-> [valid |-> v]])
             /\ InsightOutcome([scratch |-> [valid |-> v], strands |-> [valid |-> None]])
                  # InsightOutcome([scratch |-> [valid |-> v],
                                    strands |-> [valid |-> Some(FALSE)]])

\* the time gap between the evaluation time and the sample whose position
\* the verdict reports as expected
C27_GapToChosen ==
    IF validation.method = "nearest_snapshot_1"
    THEN Abs(eval_time_unix - sample_1[1].timestamp)
    ELSE Abs(eval_time_unix - CanonNow.timestamp)

\* C27: in every validate_iss verdict whose expected position is one of the
\* two samples (snapshot_near_eval, nearest_snapshot_0, nearest_snapshot_1)
\* the delta_s of the tolerance is at most the time gap between
\* eval_time_unix and the timestamp of the sample chosen as expected
\* position, and equal to it in the two nearest_snapshot methods.
C27_DeltaWithinChosenGap ==
    (IssCompared /\ validation.method # "interpolated") =>
        /\ validation.method \in {"snapshot_near_eval", "nearest_snapshot_0",
                                  "nearest_snapshot_1"}
        /\ validation.method = "nearest_snapshot_1" =>
              /\ validation.expected_lat = RRound(sample_1[1].lat, 6)
              /\ validation.expected_lon = RRound(sample_1[1].lon, 6)
        /\ validation.method # "nearest_snapshot_1" =>
              /\ validation.expected_lat = RRound(CanonNow.lat, 6)
              /\ validation.expected_lon = RRound(CanonNow.lon, 6)
        /\ validation.delta_s <= C27_GapToChosen
        /\ validation.method # "snapshot_near_eval" =>
              validation.delta_s = C27_GapToChosen

\* within the grace window of sample 0 and strictly nearer to sample 1: the
\* expected position is sample 0, the tolerance is computed from the gap to t1
C27_Witness ==
    /\ IssCompared
    /\ validation.method = "snapshot_near_eval"
    /\ validation.delta_s = Abs(eval_time_unix - sample_1[1].timestamp)
    /\ validation.delta_s < Abs(eval_time_unix - CanonNow.timestamp)


\* the assistant messages among the first n messages that carry standard
\* tool calls
CallingAt(n) ==
    {i \in 1..n : messages[i].role = "assistant" /\ messages[i].tool_calls # <<>>}

\* the j-th tool call of message i is answered by message i + j
AnsweredInPlace(i, j) ==
    LET call == messages[i].tool_calls[j]
        m    == messages[i + j]
    IN  /\ m.role = "tool"
        /\ "tool_call_id" \in DOMAIN m
        /\ m.tool_call_id = call.id
        /\ m.name = call.function.name
        /\ call.function.name \notin RegisteredTools
              => m.content = Some(NotFound(call.function.name))

\* the first n messages answer every standard tool call once and in order
AnsweredUpTo(n) ==
    \A i \in CallingAt(n) :
        /\ i + Len(messages[i].tool_calls) <= n
        /\ \A j \in DOMAIN messages[i].tool_calls : AnsweredInPlace(i, j)
        /\ i + Len(messages[i].tool_calls) < n
              => messages[i + Len(messages[i].tool_calls) + 1].role # "tool"

\* C22: whenever a completion is requested, the messages sent answer every
\* standard tool call of every earlier response with exactly one role "tool"
\* message, in the order of the calls and directly after the response; the
\* answer to a call of an unregistered tool is "Tool '<name>' not found.";
\* and the loop never aborts on a call of an unregistered tool.
C22_OneToolMessagePerCall ==
    /\ \A k \in DOMAIN requests : AnsweredUpTo(requests[k])
    /\ agent_pc = "request" => AnsweredUpTo(Len(messages))
    /\ agent_pc = "raised" =>
          \A i \in CallingAt(Len(messages)) :
              Len(messages) - i < Len(messages[i].tool_calls)
                 => messages[i].tool_calls[Len(messages) - i + 1].function.name
                        \in RegisteredTools

\* a response with two calls, the first of an unregistered tool, has been
\* answered and the next completion has been requested
C22_Witness ==
    /\ Len(requests) = 2
    /\ \E i \in CallingAt(requests[2]) :
          /\ Len(messages[i].tool_calls) = 2
          /\ messages[i].tool_calls[1].function.name \notin RegisteredTools
          /\ requests[2] = i + 2
          /\ messages[i + 1].content = Some(NotFound("lookup"))
          /\ messages[i + 2].name = "http_request"


\* the response m is a final text response: no standard tool calls, and a
\* content that is not a JSON object with tool_name and tool_arguments
IsFinalResponse(m) ==
    /\ m.role = "assistant"
    /\ m.tool_calls = <<>>
    /\ ~ /\ m.content # None
         /\ JsonLoads(m.content[1]).kind = "dict"
         /\ {"tool_name", "tool_arguments"} \subseteq DOMAIN JsonLoads(m.content[1]).items

\* C23: run returns only on a final text response, with the content of that
\* response, and every final text response makes run return.
C23_ReturnsOnFinalText ==
    /\ agent_pc \in {"returned", "evaluated", "logged"} =>
          /\ IsFinalResponse(messages[Len(messages)])
          /\ response = Some(messages[Len(messages)].content)
    /\ IsFinalResponse(messages[Len(messages)]) =>
          agent_pc \in {"returned", "evaluated", "logged"}


\* the place of a tool name in the lexicographic order of the names
NameRank(name) == CHOOSE k \in DOMAIN NamesInOrder : NamesInOrder[k] = name

\* C28: when the transcript of a returned run holds a role "tool" message,
\* the sidecar's tool_used is true and its provenance is neither parametric
\* nor unverified_parametric; tool_names is in strictly ascending order (so
\* sorted and without duplicates) and holds names of the transcript only.
C28_ToolUseDetected ==
    agent_pc = "evaluated" =>
        /\ (\E i \in DOMAIN messages : messages[i].role = "tool") =>
              /\ evaluated[1].tool_used
              /\ evaluated[1].provenance \notin {"parametric", "unverified_parametric"}
        /\ \A a, b \in DOMAIN evaluated[1].tool_names :
              a < b => NameRank(evaluated[1].tool_names[a])
                          < NameRank(evaluated[1].tool_names[b])
        /\ \A a \in DOMAIN evaluated[1].tool_names :
              \E i \in DOMAIN messages :
                  evaluated[1].tool_names[a] \in ToolNamesOf(messages[i])

\* a run that handled a call of a tool with an empty name: tool_used is true
\* and tool_names is empty
C28_Witness ==
    /\ agent_pc = "evaluated"
    /\ \E i \in DOMAIN messages : messages[i].role = "tool"
    /\ evaluated[1].tool_used
    /\ evaluated[1].tool_names = <<>>

\* a run that handled two calls of the same tool: the name is listed once
C28_WitnessNoDuplicate ==
    /\ agent_pc = "evaluated"
    /\ Cardinality({i \in DOMAIN messages : messages[i].role = "tool"}) = 2
    /\ evaluated[1].tool_names = <<"http_request">>

\* C21: the sidecar of a transcript and the sidecar of the transcript that
\* differs from it in the contents of its tool outputs only (same prompt,
\* final text, snapshot and evaluation time) hold the same validation
\* verdict, the same tool-use flag and the same provenance.
C21_HintsAreDiagnosticOnly ==
    agent_pc = "evaluated" =>
        /\ twin # None
        /\ twin[1].validation = evaluated[1].validation
        /\ twin[1].tool_used = evaluated[1].tool_used
        /\ twin[1].provenance = evaluated[1].provenance

\* the two transcripts differ in their data hints, and the verdict is a
\* boolean one
C21_Witness ==
    /\ agent_pc = "evaluated"
    /\ twin[1].data_hints # evaluated[1].data_hints
    /\ evaluated[1].validation.valid # None


\* the places of the events of one kind
EventsAt(kind) == {i \in DOMAIN events : kind \in DOMAIN events[i]}

\* the stream converted a DeepSeek JSON tool request
ConvertedRequest ==
    \E i \in EventsAt("contentBlockStart") :
        /\ "toolUse" \in DOMAIN events[i].contentBlockStart.start
        /\ events[i].contentBlockStart.start.toolUse.toolUseId = "deepseek-uuid"

\* C25: every stop reason stream emits is tool_use, max_tokens or end_turn;
\* a finished stream has emitted exactly one messageStop, after all content
\* block events, and its stop reason is tool_use when a DeepSeek JSON tool
\* request was converted, else tool_use for tool_calls, max_tokens for
\* length and end_turn for anything else.
C25_StopReasonMapped ==
    /\ \A i \in EventsAt("messageStop") :
          events[i].messageStop.stopReason \in {"tool_use", "max_tokens", "end_turn"}
    /\ stream_pc = "done" =>
          /\ Cardinality(EventsAt("messageStop")) = 1
          /\ \A i \in EventsAt("messageStop") :
                /\ \A j \in EventsAt("contentBlockStart") \cup EventsAt("contentBlockDelta")
                          \cup EventsAt("contentBlockStop") : j < i
                /\ events[i].messageStop.stopReason =
                      IF ConvertedRequest THEN "tool_use"
                      ELSE IF finish_reason = Some("tool_calls") THEN "tool_use"
                      ELSE IF finish_reason = Some("length") THEN "max_tokens"
                      ELSE "end_turn"

\* C26: messageStart is the first event and the only one of its kind; a
\* content block that was started is stopped before the next block starts
\* and before messageStop; a finished stream has left no block open.
C26_WellBracketed ==
    /\ events # <<>> => EventsAt("messageStart") = {1}
    /\ \A i \in EventsAt("contentBlockStart") :
          /\ \A j \in EventsAt("contentBlockStart") \cup EventsAt("messageStop") :
                i < j => \E k \in EventsAt("contentBlockStop") : i < k /\ k < j
          /\ stream_pc = "done" => \E k \in EventsAt("contentBlockStop") : i < k


\* the run ids in the names of the files of the run directory
RunIdsOnDisk == {p[4][1] : p \in {q \in DOMAIN disk : q[4] # None}}

\* the requested pairs that a readable sidecar of the run rid names
Covered(rid) ==
    {pr \in {GroupPairs[i] : i \in DOMAIN GroupPairs} :
        \E p \in DOMAIN disk :
            /\ p[1] = "strands"
            /\ p[2] = sanitize_model_folder(GroupModels[1])
            /\ p[5] = "validation"
            /\ p[4] = Some(rid)
            /\ disk[p] # None
            /\ disk[p][1].model = pr[1]
            /\ disk[p][1].prompt_name = pr[2]}

\* both files of the pair pr exist for the framework fw under the run id rid
HasRecord(fw, pr, rid) ==
    /\ <<fw, sanitize_model_folder(pr[1]), pr[2], rid, "validation">> \in DOMAIN disk
    /\ <<fw, sanitize_model_folder(pr[1]), pr[2], rid, "result">> \in DOMAIN disk

\* the comparison lists the pair pr of the framework fw as missing
ReportedMissing(fw, pr) ==
    \E i \in DOMAIN missing :
        missing[i] = [framework |-> fw, model |-> pr[1], prompt |-> pr[2]]

\* C24: the run id chosen covers the largest number of distinct requested
\* pairs among the readable sidecars, the greatest run id among those that
\* cover as many; no run id is chosen exactly when no readable sidecar names
\* a requested pair; the strands rows loaded are those of the chosen run id
\* and a pair is reported missing exactly when it lacks a record under it.
C24_BestCoveredRun ==
    report_pc # "choose" =>
        /\ strands_run_id = None <=> \A rid \in RunIdsOnDisk : Covered(rid) = {}
        /\ strands_run_id # None =>
              /\ Covered(strands_run_id[1]) # {}
              /\ \A rid \in RunIdsOnDisk :
                    \/ Cardinality(Covered(rid)) < Cardinality(Covered(strands_run_id[1]))
                    \/ /\ Cardinality(Covered(rid)) = Cardinality(Covered(strands_run_id[1]))
                       /\ rid <= strands_run_id[1]
        /\ report_pc = "loaded" =>
              /\ \A i \in DOMAIN rows :
                    rows[i].framework = "strands" =>
                        /\ HasRecord("strands", <<rows[i].model, rows[i].prompt_name>>,
                                     strands_run_id)
                        /\ rows[i].validation =
                              disk[<<"strands", sanitize_model_folder(rows[i].model),
                                     rows[i].prompt_name, strands_run_id,
                                     "validation">>][1].validation
              /\ \A k \in DOMAIN GroupPairs :
                    ReportedMissing("strands", GroupPairs[k])
                        <=> ~HasRecord("strands", GroupPairs[k], strands_run_id)

\* two runs cover one pair each: the greater run id is chosen, and the pair
\* that has no record under it is reported missing
C24_Witness ==
    /\ report_pc = "loaded"
    /\ Cardinality(Covered(1)) = 1
    /\ Cardinality(Covered(2)) = 1
    /\ strands_run_id = Some(2)
    /\ \E k \in DOMAIN GroupPairs : ReportedMissing("strands", GroupPairs[k])

\* the earlier run covers more pairs than the later one and is chosen
C24_WitnessEarlierRun ==
    /\ report_pc = "loaded"
    /\ Cardinality(Covered(1)) = 2
    /\ Cardinality(Covered(2)) = 1
    /\ strands_run_id = Some(1)

\* C29: every sidecar on disk embeds the entry its prompt has in the
\* snapshot built by the invocation that wrote the sidecar (an empty entry
\* when the snapshot has none), and canonical_<version>.json holds the
\* snapshot of the invocation that built one last.
C29_SidecarEmbedsOwnSnapshot ==
    /\ \A p \in DOMAIN disk :
          p[5] = "validation" =>
              \E k \in DOMAIN built :
                  /\ built[k].started = disk[p][1].run.started
                  /\ disk[p][1].canonical = GetOr(built[k].snapshot.prompts, p[3], <<>>)
    /\ canonical_file = IF built = <<>> THEN None
                        ELSE Some(built[Len(built)].snapshot)

\* the scratch and the strands invocation built different snapshots: their
\* sidecars of one prompt embed different entries, and the canonical file
\* holds the snapshot of the later one only
C29_Witness ==
    /\ Len(built) = 2
    /\ built[1].snapshot # built[2].snapshot
    /\ canonical_file = Some(built[2].snapshot)
    /\ \E p, q \in DOMAIN disk :
          /\ p[5] = "validation" /\ q[5] = "validation"
          /\ p[1] = "scratch" /\ q[1] = "strands"
          /\ p[3] = q[3]
          /\ disk[p][1].canonical # disk[q][1].canonical

\* no sidecar exists without the transcript of its pair
NoSidecarWithoutTranscript ==
    \A p \in DOMAIN disk :
        p[5] = "validation" => <<p[1], p[2], p[3], p[4], "result">> \in DOMAIN disk

\* the step in which the validation of the current pair raises
ValidationRaised == inv_pc = "validate" /\ inv_pc' # "validate" /\ disk' = disk

\* the sidecar path of the pair the invocation is handling
CurrentSidecar ==
    PairPath(runner, GroupPairs[prompt_next][1], GroupPairs[prompt_next][2],
             run_id, "validation")

\* the transcript path of the pair the invocation is handling
CurrentTranscript ==
    PairPath(runner, GroupPairs[prompt_next][1], GroupPairs[prompt_next][2],
             run_id, "result")

\* the run id the comparison looks for records of the framework under
LookedUnder(fw) == IF fw = "scratch" THEN None ELSE strands_run_id

\* the transcript of the pair pr is on disk under the run id rid and its
\* sidecar is not
LeftUnvalidated(fw, pr, rid) ==
    /\ <<fw, sanitize_model_folder(pr[1]), pr[2], rid, "result">> \in DOMAIN disk
    /\ <<fw, sanitize_model_folder(pr[1]), pr[2], rid, "validation">> \notin DOMAIN disk

\* C30 as stated: a sidecar never exists without its transcript; a pair
\* whose validation raised is left with a transcript and no sidecar; and a
\* comparison that has ended has reported every pair left so as missing.
C30_RaisedPairIsMissing ==
    /\ []NoSidecarWithoutTranscript
    /\ [][ValidationRaised =>
            /\ CurrentTranscript \in DOMAIN disk'
            /\ CurrentSidecar \notin DOMAIN disk']_vars
    /\ [](report_pc \in {"loaded", "raised"} =>
            \A k \in DOMAIN GroupPairs :
                \A fw \in {"scratch", "strands"} :
                    LeftUnvalidated(fw, GroupPairs[k], LookedUnder(fw))
                        => ReportedMissing(fw, GroupPairs[k]))

\* C30 amended: a sidecar never exists without its transcript; a pair whose
\* validation raised is left with its transcript, and without a sidecar
\* when no sidecar of that name was there before; and a comparison that
\* found a strands run id and loaded every pair has reported as missing
\* exactly the pairs that lack one of the two files.
C30_RaisedPairIsMissingOnceLoaded ==
    /\ []NoSidecarWithoutTranscript
    /\ [][ValidationRaised =>
            /\ CurrentTranscript \in DOMAIN disk'
            /\ CurrentSidecar \notin DOMAIN disk => CurrentSidecar \notin DOMAIN disk']_vars
    /\ [](report_pc = "loaded" =>
            \A k \in DOMAIN GroupPairs : \A fw \in {"scratch", "strands"} :
                ReportedMissing(fw, GroupPairs[k])
                    <=> ~HasRecord(fw, GroupPairs[k], LookedUnder(fw)))

\* a scratch pair whose validation raised: its transcript is on disk, its
\* sidecar is not, and the comparison has reported it missing
C30_Witness ==
    /\ report_pc = "loaded"
    /\ \E k \in DOMAIN GroupPairs :
          /\ LeftUnvalidated("scratch", GroupPairs[k], None)
          /\ ReportedMissing("scratch", GroupPairs[k])

=============================================================================
